---- MODULE Spec2Model ----
(***************************************************************************)
(* Verification model of the DSB data browser (magpierre/dsb).             *)
(*                                                                         *)
(* Strings are sequences of one-character strings, so that the parser of   *)
(* windows/queryParser.go can be modelled byte by byte.  Indices into      *)
(* strings and slices are 0-based as in Go; Sub(s, i, j) is Go's s[i:j].   *)
(***************************************************************************)
EXTENDS Integers, Sequences, FiniteSets, TLC

----------------------------------------------------------------------------
(* Byte strings: the parts of Go's strings package the parser uses         *)

\* printable ASCII in code order; AsciiChars[i] has byte value 31 + i
\* (byte 96 is written GRAVE and occurs in no input)
AsciiChars ==
  << " ", "!", "\"", "#", "$", "%", "&", "'", "(", ")", "*", "+", ",", "-",
     ".", "/", "0", "1", "2", "3", "4", "5", "6", "7", "8", "9", ":", ";",
     "<", "=", ">", "?", "@", "A", "B", "C", "D", "E", "F", "G", "H", "I",
     "J", "K", "L", "M", "N", "O", "P", "Q", "R", "S", "T", "U", "V", "W",
     "X", "Y", "Z", "[", "\\", "]", "^", "_", "GRAVE", "a", "b", "c", "d", "e",
     "f", "g", "h", "i", "j", "k", "l", "m", "n", "o", "p", "q", "r", "s",
     "t", "u", "v", "w", "x", "y", "z", "{", "|", "}", "~" >>

\* byte value of a character
Ord(c) ==
  IF c = "\t" THEN 9
  ELSE IF c = "\n" THEN 10
  ELSE IF c = "\r" THEN 13
  ELSE 31 + (CHOOSE i \in 1..Len(AsciiChars) : AsciiChars[i] = c)

UpperLetters == {AsciiChars[i] : i \in 34..59}

LowerLetters == {AsciiChars[i] : i \in 66..91}

\* unicode.ToLower / unicode.ToUpper on one ASCII byte ('a' - 'A' = 32)
ToLowerCh(c) == IF c \in UpperLetters THEN AsciiChars[Ord(c) + 32 - 31] ELSE c

ToUpperCh(c) == IF c \in LowerLetters THEN AsciiChars[Ord(c) - 32 - 31] ELSE c

ToLower(s) == [i \in 1..Len(s) |-> ToLowerCh(s[i])]

ToUpper(s) == [i \in 1..Len(s) |-> ToUpperCh(s[i])]

\* strings.EqualFold, on ASCII
EqualFold(s, t) == ToLower(s) = ToLower(t)

\* Go's s[i:j], 0-based, j exclusive
Sub(s, i, j) == IF j <= i THEN << >> ELSE SubSeq(s, i + 1, j)

isWhitespace(c) == c \in {" ", "\t", "\n", "\r"}

\* least / greatest element of a non-empty set of integers
Least(S) == CHOOSE i \in S : \A j \in S : i <= j

Greatest(S) == CHOOSE i \in S : \A j \in S : j <= i

\* s[from..to] (1-based, inclusive) when keep, the positions of s outside
\* the cutset, is not empty
trimTo(s, keep) ==
  IF keep = {} THEN << >> ELSE SubSeq(s, Least(keep), Greatest(keep))

\* strings.Trim(s, cutset)
Trim(s, cutset) == trimTo(s, {i \in 1..Len(s) : s[i] \notin cutset})

\* strings.TrimSpace, on ASCII
TrimSpace(s) == Trim(s, {" ", "\t", "\n", "\r"})

firstHit(hits) == IF hits = {} THEN -1 ELSE Least(hits)

\* strings.Index(s, sub): 0-based position of the first occurrence, or -1
Index(s, sub) ==
  firstHit({i \in 0..(Len(s) - Len(sub)) : Sub(s, i, i + Len(sub)) = sub})

\* strings.Contains
Contains(s, sub) == Index(s, sub) >= 0

\* -1 / 0 / +1 for a < b, a = b, a > b
Sign(a, b) == IF a < b THEN -1 ELSE IF a > b THEN 1 ELSE 0

\* the comparison of s and t given the positions where they differ
compareAt(s, t, diff) ==
  IF diff = {} THEN Sign(Len(s), Len(t))
  ELSE Sign(Ord(s[Least(diff)]), Ord(t[Least(diff)]))

\* strings.Compare: bytewise lexicographic, -1 / 0 / +1
Compare(s, t) ==
  compareAt(s, t, {i \in 1..Len(s) : i <= Len(t) /\ s[i] # t[i]})

----------------------------------------------------------------------------
(* strconv.ParseFloat on decimal literals                                  *)
(* A value below 10^9 is the exact fraction num / den, which is how two    *)
(* float64 of so few digits compare.  An integer of 10 to 16 digits is     *)
(* the digit string big of the float64 nearest to it, with the sign in     *)
(* num.  Exponent, hexadecimal, inf and nan spellings, longer integers and *)
(* long fractions occur in no input of the model.                          *)

Digits == {"0", "1", "2", "3", "4", "5", "6", "7", "8", "9"}

RECURSIVE DigitsVal(_)
DigitsVal(s) ==
  IF s = << >> THEN 0
  ELSE 10 * DigitsVal(Sub(s, 0, Len(s) - 1)) + (Ord(s[Len(s)]) - 48)

RECURSIVE Pow10(_)
Pow10(n) == IF n = 0 THEN 1 ELSE 10 * Pow10(n - 1)

floatValue(neg, ipv, fpv, scale) ==
  [ok |-> TRUE,
   num |-> IF neg THEN 0 - (ipv * scale + fpv) ELSE ipv * scale + fpv,
   den |-> scale, big |-> << >>]

\* the digits without leading zeros
stripZeros(d) ==
  Sub(d, Least({i \in 0..Len(d) : i = Len(d) \/ d[i + 1] # "0"}), Len(d))

digitOf(n) == CHOOSE c \in Digits : Ord(c) - 48 = n

RECURSIVE succDigits(_)
\* the digits of n + 1
succDigits(d) ==
  IF d = << >> THEN << "1" >>
  ELSE IF d[Len(d)] = "9" THEN succDigits(Sub(d, 0, Len(d) - 1)) \o << "0" >>
  ELSE Sub(d, 0, Len(d) - 1) \o << digitOf(Ord(d[Len(d)]) - 47) >>

\* the digits of n - 1 for an odd n
predOdd(d) == Sub(d, 0, Len(d) - 1) \o << digitOf(Ord(d[Len(d)]) - 49) >>

\* n modulo 4, from its last two digits
mod4(d) == (10 * (Ord(d[Len(d) - 1]) - 48) + (Ord(d[Len(d)]) - 48)) % 4

\* 2^53: every integer up to it is a float64
TwoTo53 ==
  << "9", "0", "0", "7", "1", "9", "9", "2", "5", "4", "7", "4", "0", "9",
     "9", "2" >>

\* faulty variant of roundFloat64: the integer is kept as it is written
roundExact(d, m) == d

\* the float64 nearest to an integer of up to 16 digits (below 2^54), m
\* being the integer modulo 4: above 2^53 the float64 are the even
\* integers, and an odd integer goes to the neighbour that is a multiple
\* of 4 (round half to even)
roundFloat64(d, m) ==
  IF Len(d) < 16 \/ Compare(d, TwoTo53) <= 0 \/ m \in {0, 2} THEN d
  ELSE IF m = 1 THEN predOdd(d) ELSE succDigits(d)

bigValue(neg, d) ==
  [ok |-> TRUE, num |-> IF neg THEN -1 ELSE 1, den |-> 1, big |-> d]

\* an integer literal of ten digits or more
integerValue(neg, d) ==
  IF Len(d) > 9 THEN bigValue(neg, roundFloat64(d, mod4(d)))
  ELSE floatValue(neg, DigitsVal(d), 0, 1)

\* cmp(a, b) of two float64: -1, 0 or 1
compareFloats(a, b) ==
  IF a.big = << >> /\ b.big = << >>
    THEN Sign(a.num * b.den, b.num * a.den)
  ELSE IF a.big # << >> /\ b.big # << >>
    THEN IF a.num # b.num THEN Sign(a.num, b.num)
         ELSE IF Len(a.big) # Len(b.big)
           THEN a.num * Sign(Len(a.big), Len(b.big))
           ELSE a.num * Compare(a.big, b.big)
  ELSE IF a.big # << >> THEN a.num ELSE 0 - b.num

\* integer part ip and fraction part fp of the literal
parseDigits(neg, ip, fp) ==
  IF /\ \A i \in 1..Len(ip) : ip[i] \in Digits
     /\ \A i \in 1..Len(fp) : fp[i] \in Digits
     /\ Len(ip) + Len(fp) > 0
  THEN IF fp = << >> THEN integerValue(neg, stripZeros(ip))
       ELSE floatValue(neg, DigitsVal(ip), DigitsVal(fp), Pow10(Len(fp)))
  ELSE [ok |-> FALSE, num |-> 0, den |-> 1, big |-> << >>]

\* the unsigned literal and the position of its decimal point (-1: none)
parseUnsigned(neg, body, dot) ==
  parseDigits(neg,
              IF dot < 0 THEN body ELSE Sub(body, 0, dot),
              IF dot < 0 THEN << >> ELSE Sub(body, dot + 1, Len(body)))

parseSigned(neg, body) == parseUnsigned(neg, body, Index(body, <<".">>))

ParseFloat(s) ==
  parseSigned(Len(s) > 0 /\ s[1] = "-",
              IF Len(s) > 0 /\ s[1] \in {"+", "-"} THEN Sub(s, 1, Len(s)) ELSE s)

----------------------------------------------------------------------------
(* windows/queryParser.go                                                  *)

\* the nil *Query
NilQuery == [isNil |-> TRUE, Expressions |-> << >>, LogicOps |-> << >>]

\* the operator table of parseExpression, in the order the code tries it
operators ==
  << [op |-> "OpGreaterEqual", symbol |-> <<">", "=">>],
     [op |-> "OpLessEqual",    symbol |-> <<"<", "=">>],
     [op |-> "OpNotEqual",     symbol |-> <<"!", "=">>],
     [op |-> "OpEqual",        symbol |-> <<"=">>],
     [op |-> "OpGreater",      symbol |-> <<">">>],
     [op |-> "OpLess",         symbol |-> <<"<">>],
     [op |-> "OpContains",     symbol |-> <<"~">>] >>

\* NewQueryParser and the lookup columnMap[name]: the index of the column
\* whose lower-cased header is name (the last one, a later column
\* overwriting an earlier one of the same key), or -1 when no key matches
lastHit(hits) == IF hits = {} THEN -1 ELSE Greatest(hits) - 1

\* faulty variant of columnMap: the keys keep the headers' letter case
columnMapCaseSensitive(headers, name) ==
  lastHit({i \in 1..Len(headers) : headers[i] = name})

columnMap(headers, name) ==
  lastHit({i \in 1..Len(headers) : ToLower(headers[i]) = name})

\* the word-boundary test of splitByLogicOps for the connector w at i
connectorAt(query, i, w) ==
  /\ i + Len(w) <= Len(query)
  /\ ToUpper(Sub(query, i, i + Len(w))) = w
  /\ (i = 0 \/ isWhitespace(query[i]))
  /\ (i + Len(w) >= Len(query) \/ isWhitespace(query[i + Len(w) + 1]))

\* the text of the connector found at i, or the empty text
connectorText(query, i) ==
  IF connectorAt(query, i, <<"A", "N", "D">>) THEN <<"A", "N", "D">>
  ELSE IF connectorAt(query, i, <<"O", "R">>) THEN <<"O", "R">>
  ELSE << >>

\* the flush of `current` before a connector or at the end of the string;
\* trimmed is strings.TrimSpace(current)
flushCurrent(parts, trimmed) ==
  IF trimmed # << >>
  THEN Append(parts, [text |-> trimmed, isOperator |-> FALSE])
  ELSE parts

\* `current` after the flush: reset only when it held an expression
resetCurrent(current, trimmed) == IF trimmed # << >> THEN << >> ELSE current

RECURSIVE splitLoop(_, _, _, _)
RECURSIVE splitStep(_, _, _, _, _)
splitStep(query, i, current, parts, w) ==
  IF w # << >>
  THEN splitLoop(query, i + Len(w),
                 resetCurrent(current, TrimSpace(current)),
                 Append(flushCurrent(parts, TrimSpace(current)),
                        [text |-> w, isOperator |-> TRUE]))
  ELSE splitLoop(query, i + 1, Append(current, query[i + 1]), parts)

splitLoop(query, i, current, parts) ==
  IF i >= Len(query) THEN flushCurrent(parts, TrimSpace(current))
  ELSE splitStep(query, i, current, parts, connectorText(query, i))

splitByLogicOps(query) == splitLoop(query, 0, << >>, << >>)

\* the validation at the end of the operator branch of parseExpression
checkedExpression(headers, columnName, op, value) ==
  [err |-> IF columnMap(headers, ToLower(columnName)) >= 0
           THEN "" ELSE "unknown column",
   expr |-> [ColumnName |-> columnName, Operator |-> op, Value |-> value]]

\* the operator opInfo was found in s at idx > 0
splitAtOperator(headers, s, opInfo, idx) ==
  checkedExpression(headers, TrimSpace(Sub(s, 0, idx)), opInfo.op,
    Trim(TrimSpace(Sub(s, idx + Len(opInfo.symbol), Len(s))), {"\"", "'"}))

\* k: the first entry of the operator table found at an index > 0, 0: none
parseWithOperator(headers, s, k) ==
  IF k = 0
  THEN [err |-> "",
        expr |-> [ColumnName |-> << >>, Operator |-> "OpContains",
                  Value |-> s]]
  ELSE splitAtOperator(headers, s, operators[k],
                       Index(s, operators[k].symbol))

firstOperator(hits) == IF hits = {} THEN 0 ELSE Least(hits)

parseTrimmed(headers, s) ==
  parseWithOperator(headers, s,
    firstOperator({k \in 1..Len(operators) :
                     Index(s, operators[k].symbol) > 0}))

\* parseExpression: the first operator of the table found at an index > 0
\* splits the text; no operator gives a contains-search on all columns
parseExpression(headers, exprStr) == parseTrimmed(headers, TrimSpace(exprStr))

isOperatorPart(p) == p.isOperator

isExpressionPart(p) == ~p.isOperator

\* the operators ParseQuery appends for the connector parts
logicOp(text) ==
  IF text = <<"A", "N", "D">> THEN <<"LogicAND">>
  ELSE IF text = <<"O", "R">> THEN <<"LogicOR">>
  ELSE << >>

RECURSIVE logicOpsOf(_)
logicOpsOf(opParts) ==
  IF opParts = << >> THEN << >>
  ELSE logicOp(ToUpper(Head(opParts).text)) \o logicOpsOf(Tail(opParts))

parseAll(headers, exParts) ==
  [i \in 1..Len(exParts) |-> parseExpression(headers, exParts[i].text)]

\* faulty variant of buildQuery: the count of operators is not validated
buildQueryUncounted(parsed, logicOps, bad) ==
  IF bad # {} THEN [query |-> NilQuery, err |-> parsed[Least(bad)].err]
  ELSE [query |-> [isNil |-> FALSE,
                   Expressions |-> [i \in 1..Len(parsed) |-> parsed[i].expr],
                   LogicOps |-> logicOps],
        err |-> ""]

\* the end of ParseQuery: the first error of the loop, else the count check
buildQuery(parsed, logicOps, bad) ==
  IF bad # {} THEN [query |-> NilQuery, err |-> parsed[Least(bad)].err]
  ELSE IF Len(logicOps) # Len(parsed) - 1
  THEN [query |-> NilQuery, err |-> "mismatched expressions and operators"]
  ELSE [query |-> [isNil |-> FALSE,
                   Expressions |-> [i \in 1..Len(parsed) |-> parsed[i].expr],
                   LogicOps |-> logicOps],
        err |-> ""]

collectQuery(parsed, logicOps) ==
  buildQuery(parsed, logicOps, {i \in 1..Len(parsed) : parsed[i].err # ""})

parseParts(headers, parts) ==
  IF Len(parts) = 0 THEN [query |-> NilQuery, err |-> "empty query"]
  ELSE collectQuery(parseAll(headers, SelectSeq(parts, isExpressionPart)),
                    logicOpsOf(SelectSeq(parts, isOperatorPart)))

\* ParseQuery: [query, err]; a blank string gives (nil, nil)
ParseQuery(headers, queryStr) ==
  IF TrimSpace(queryStr) = << >> THEN [query |-> NilQuery, err |-> ""]
  ELSE parseParts(headers, splitByLogicOps(queryStr))

\* the switch of compareString / compareNumeric on a three-way result
compareOp(cmp, op) ==
  CASE op = "OpGreater"      -> cmp > 0
    [] op = "OpLess"         -> cmp < 0
    [] op = "OpGreaterEqual" -> cmp >= 0
    [] op = "OpLessEqual"    -> cmp <= 0
    [] OTHER                 -> FALSE

\* compareString: strings.Compare of the lower-cased operands
compareString(cellValue, compareValue, op) ==
  compareOp(Compare(ToLower(cellValue), ToLower(compareValue)), op)

compareParsed(cell, compare, cellValue, compareValue, op) ==
  IF ~cell.ok \/ ~compare.ok
  THEN compareString(cellValue, compareValue, op)
  ELSE compareOp(compareFloats(cell, compare), op)

\* compareNumeric: numeric when both operands parse, else compareString
compareNumeric(cellValue, compareValue, op) ==
  compareParsed(ParseFloat(TrimSpace(cellValue)),
                ParseFloat(TrimSpace(compareValue)),
                cellValue, compareValue, op)

\* the operator switch of evaluateExpression
evaluateCell(expr, cellValue) ==
  CASE expr.Operator = "OpEqual"    -> EqualFold(cellValue, expr.Value)
    [] expr.Operator = "OpNotEqual" -> ~EqualFold(cellValue, expr.Value)
    [] expr.Operator = "OpContains" ->
         Contains(ToLower(cellValue), ToLower(expr.Value))
    [] expr.Operator \in {"OpGreater", "OpLess", "OpGreaterEqual",
                          "OpLessEqual"} ->
         compareNumeric(cellValue, expr.Value, expr.Operator)
    [] OTHER -> FALSE

evaluateColumn(expr, row, colIdx) ==
  IF colIdx < 0 \/ colIdx >= Len(row) THEN FALSE
  ELSE evaluateCell(expr, row[colIdx + 1])

\* faulty variant of containsAny: the cell is searched as it is spelled
containsAnyCaseSensitive(row, searchTerm) ==
  \E c \in 1..Len(row) : Contains(row[c], searchTerm)

\* the search of a bare term in every cell of the row
containsAny(row, searchTerm) ==
  \E c \in 1..Len(row) : Contains(ToLower(row[c]), searchTerm)

\* evaluateExpression against one row of cell texts
evaluateExpression(headers, expr, row) ==
  IF expr.ColumnName = << >> /\ expr.Operator = "OpContains"
  THEN containsAny(row, ToLower(expr.Value))
  ELSE evaluateColumn(expr, row, columnMap(headers, ToLower(expr.ColumnName)))

\* the loop of EvaluateRow over results[j], the value of expression j on
\* the row: the result after applying LogicOps[1..i]
\* faulty variant of evalFold: every operator is applied as AND
evalFoldAllAnd(logicOps, results, i) ==
  \A j \in 1..(i + 1) : results[j]

RECURSIVE evalFold(_, _, _)
evalFold(logicOps, results, i) ==
  IF i = 0 THEN results[1]
  ELSE CASE logicOps[i] = "LogicAND" ->
              evalFold(logicOps, results, i - 1) /\ results[i + 1]
         [] logicOps[i] = "LogicOR" ->
              evalFold(logicOps, results, i - 1) \/ results[i + 1]
         [] OTHER -> evalFold(logicOps, results, i - 1)

EvaluateRow(headers, query, row) ==
  IF query.isNil \/ Len(query.Expressions) = 0 THEN TRUE
  ELSE evalFold(query.LogicOps,
                [j \in 1..Len(query.Expressions) |->
                   evaluateExpression(headers, query.Expressions[j], row)],
                Len(query.LogicOps))

----------------------------------------------------------------------------
(* Inputs: the loaded datasets and the texts typed into the search entry   *)

\* An Arrow data type: its type id and, for STRUCT, the types of its fields,
\* for LIST the type of its elements
arrowType(id, kids) == [id |-> id, kids |-> kids]

\* An Arrow value: null, or a text for a scalar, or the field values of a
\* struct, or the elements of a list
nullValue == [null |-> TRUE, v |-> << >>, kids |-> << >>]

scalarValue(text) == [null |-> FALSE, v |-> text, kids |-> << >>]

nestedValue(kids) == [null |-> FALSE, v |-> << >>, kids |-> kids]

\* The Arrow type of a column of a flat table
arrowTypeOf(columnType) ==
  arrowType(IF columnType = "TypeInt" THEN "INT64" ELSE "STRING", << >>)

\* The Arrow columns of a table whose cells are all scalars
flatRecord(t) ==
  [c \in 1..Len(t.header) |->
     [type |-> arrowTypeOf(t.columnTypes[c]),
      cells |-> [r \in 1..Len(t.data) |->
                   IF t.isNull[r][c] THEN nullValue
                   ELSE scalarValue(t.data[r][c])]]]

People ==
  [ header |-> <<<<"n", "a", "m", "e">>, <<"a", "g", "e">>, <<"r", "o", "l", "e">>>>,
    columnTypes |-> <<"TypeString", "TypeInt", "TypeString">>,
    data |-> <<
      <<<<"b", "o", "b">>, <<"1", "7">>, <<"d", "e", "v">>>>,
      <<<<"a", "l">>, <<"1", "8">>, <<"d", "e", "v">>>>,
      <<<<"c", "y">>, <<"6", "4">>, <<"o", "p", "s">>>>,
      <<<<"d", "i">>, <<"6", "5">>, <<"o", "p", "s">>>> >>,
    isNull |-> <<
      <<FALSE, FALSE, FALSE>>,
      <<FALSE, FALSE, FALSE>>,
      <<FALSE, FALSE, FALSE>>,
      <<FALSE, FALSE, FALSE>> >> ]

Stock ==
  [ header |-> <<<<"P", "r", "i", "c", "e">>, <<"Q", "t", "y">>>>,
    columnTypes |-> <<"TypeInt", "TypeInt">>,
    data |-> <<
      <<<<"9">>, <<"1">>>>,
      <<<<"1", "0">>, <<"2">>>>,
      <<<<>>, <<"3">>>> >>,
    isNull |-> <<
      <<FALSE, FALSE>>,
      <<FALSE, FALSE>>,
      <<TRUE, FALSE>> >> ]

\* A table with a column of a type appendValueToBuilder has no case for
\* (DURATION), a STRUCT column and a LIST column; parseRecord leaves the text
\* of a DURATION cell empty and formats the STRUCT column as one text
Mixed ==
  [ header |-> <<<<"r", "o", "l", "e">>, <<"s", "p", "a", "n">>,
                 <<"a", "d", "d", "r">>, <<"t", "a", "g", "s">>>>,
    columnTypes |-> <<"TypeString", "TypeDuration", "TypeStruct", "TypeList">>,
    data |-> <<
      <<<<"d", "e", "v">>, <<>>, <<"{", "}">>, <<"[", "a", "]">>>>,
      <<<<"o", "p", "s">>, <<>>, <<"{", "}">>, <<"[", "]">>>>,
      <<<<"D", "e", "v">>, <<>>, <<"{", "}">>, <<"[", "]">>>> >>,
    isNull |-> <<
      <<FALSE, FALSE, FALSE, FALSE>>,
      <<FALSE, TRUE, TRUE, FALSE>>,
      <<FALSE, FALSE, FALSE, TRUE>> >> ]

\* addr: STRUCT<city STRING, zone DURATION, gaps LIST<DURATION>>
addrType ==
  arrowType("STRUCT",
            << arrowType("STRING", << >>), arrowType("DURATION", << >>),
               arrowType("LIST", << arrowType("DURATION", << >>) >>) >>)

\* The Arrow columns of Mixed
MixedRecord ==
  << [type |-> arrowType("STRING", << >>),
      cells |-> << scalarValue(<<"d", "e", "v">>),
                   scalarValue(<<"o", "p", "s">>),
                   scalarValue(<<"D", "e", "v">>) >>],
     [type |-> arrowType("DURATION", << >>),
      cells |-> << scalarValue(<<"5">>), nullValue, scalarValue(<<"7">>) >>],
     [type |-> addrType,
      cells |-> << nestedValue(<< scalarValue(<<"x">>), scalarValue(<<"1">>),
                                  nestedValue(<< scalarValue(<<"3">>) >>) >>),
                   nullValue,
                   nestedValue(<< nullValue, scalarValue(<<"2">>),
                                  nullValue >>) >>],
     [type |-> arrowType("LIST", << arrowType("STRING", << >>) >>),
      cells |-> << nestedValue(<< scalarValue(<<"a">>), nullValue >>),
                   nestedValue(<< >>),
                   nullValue >>] >>

Tables == {People, Stock}

\* search texts: blank, bare term, two comparisons joined by AND, missing
\* right-hand value, unknown column, trailing connector, mixed-case column
ViewQueries ==
  { <<>>,
    <<"d", "e", "v">>,
    <<"a", "g", "e", " ", ">", "=", " ", "1", "8", " ", "A", "N", "D", " ", "a", "g", "e", " ", "<", " ", "6", "5">>,
    <<"a", "g", "e", " ", ">">>,
    <<"b", "o", "g", "u", "s", " ", "=", " ", "1">>,
    <<"o", "p", "s", " ", "A", "N", "D">>,
    <<"p", "r", "i", "c", "e", " ", ">", " ", "9">> }

\* longest index list handed to SetVisibleColumns
MaxIndices == 2

----------------------------------------------------------------------------
(* State of one open table view                                            *)

VARIABLES
  header,             \* Data.header: column names of the source
  data,               \* Data.data: cell texts of the source, row by row
  columnTypes,        \* DataSource.ColumnType of each column
  isNull,             \* Value.IsNull of each source cell
  arrow_rec,          \* Data.arrow_table: the typed columns of the source
  searchText,         \* searchEntry.Text
  columnChecks,       \* columnChecks[colName].Checked
  visibleColumns,     \* Data.visibleColumns (visibleColumnIndices)
  filteredRowIndices, \* Data.filteredRowIndices (visibleRowIndices)
  lastValidQuery,     \* lastValidQuery (activeQuery)
  sortState,          \* SortState{Column, Direction}
  errorLabel,         \* text shown by errorLabel, "" when hidden
  last,               \* the last operation, its arguments and its outcome
  call,               \* the last direct call of the query engine
  filteredData,       \* Data.filteredData: the cell texts the table shows
  filteredHeader,     \* Data.filteredHeader: the column names it shows
  exported,           \* the table exportData handed to the serializer
  exportJob,          \* the export goroutine: its position and its locals
  getData             \* a GetData call: the loader and its progress goroutine

vars == << header, data, columnTypes, isNull, arrow_rec, searchText, columnChecks,
           visibleColumns, filteredRowIndices, lastValidQuery, sortState,
           errorLabel, last, call, filteredData, filteredHeader, exported,
           exportJob, getData >>

\* the goroutines started by exportData and GetData
workerVars == << exportJob, getData >>

\* the loaded source; no operation of the browser writes it
sourceVars == << header, data, columnTypes, isNull, arrow_rec >>

viewVars == << searchText, columnChecks, visibleColumns, filteredRowIndices,
               lastValidQuery, sortState, errorLabel, last, filteredData,
               filteredHeader, exported, workerVars >>

NumRows == Len(data)

NumCols == Len(header)

\* the slice [0, 1, ..., n-1]
Iota(n) == [i \in 1..n |-> i - 1]

NoCall == [fn |-> "none", q |-> << >>, words |-> << >>, column |-> << >>,
           value |-> << >>, row |-> -1, query |-> NilQuery, err |-> "",
           result |-> FALSE, filters |-> << >>, logic |-> -1,
           evaluated |-> 0, cell |-> << >>, op |-> << >>,
           nodes |-> << >>, ids |-> << >>, parsed |-> << >>,
           writes |-> << >>]

\* no table handed to a serializer yet
NoExport == [made |-> FALSE, names |-> << >>, types |-> << >>,
             columns |-> << >>, numRows |-> 0]

\* no export goroutine is running
NoJob == [pc |-> "idle", names |-> << >>, types |-> << >>, cols |-> << >>,
          columns |-> << >>]

\* no GetData call was made.  pc is the position of GetData itself,
\* progress that of its progress goroutine, dialog whether "Please wait" is
\* shown, files the ids of resp.AddFiles, idx the position of the range loop,
\* loaded the number of browsers created
NoLoad == [pc |-> "idle", progress |-> "none", dialog |-> FALSE,
           files |-> << >>, file_id |-> 0, options |-> "nil", test |-> "ok",
           idx |-> 0, loaded |-> 0]

\* again: a handler of the browser ran with the same text right after
\* itself
NoOp == [op |-> "none", q |-> << >>, col |-> -1, dir |-> "SortNone",
         indices |-> << >>, err |-> "", again |-> FALSE]

\* CreateDataBrowser: every column checked and visible, every row visible,
\* no query; the SortState of an unsorted view
loadTable(t, rec) ==
  /\ header = t.header
  /\ data = t.data
  /\ columnTypes = t.columnTypes
  /\ isNull = t.isNull
  /\ arrow_rec = rec

CreateDataBrowser ==
  /\ searchText = << >>
  /\ columnChecks = [i \in 1..Len(header) |-> TRUE]
  /\ visibleColumns = Iota(Len(header))
  /\ filteredRowIndices = Iota(Len(data))
  /\ lastValidQuery = NilQuery
  /\ sortState = [Column |-> -1, Direction |-> "SortNone"]
  /\ errorLabel = ""
  /\ last = NoOp
  /\ call = NoCall
  /\ filteredData = data
  /\ filteredHeader = header
  /\ exported = NoExport
  /\ exportJob = NoJob
  /\ getData = NoLoad

Init ==
  /\ \E t \in Tables : loadTable(t, flatRecord(t))
  /\ CreateDataBrowser

----------------------------------------------------------------------------
(* windows/dataBrowser.go: applyFilters and the handlers that call it      *)

\* the column loop of applyFilters: checked columns in header order
isChecked(checks, i) == checks[i + 1]

\* faulty variant of checkedColumns: the loop runs from the last column down
checkedColumnsDescending(checks, n) ==
  LET Checked(i) == isChecked(checks, n - 1 - i)
      kept == SelectSeq(Iota(n), Checked)
  IN  [k \in 1..Len(kept) |-> n - 1 - kept[k]]

checkedColumns(checks, n) ==
  LET Checked(i) == isChecked(checks, i) IN SelectSeq(Iota(n), Checked)

\* faulty variant of queryToApply: a parse error drops the last valid query
queryToApplyParsedOnly(res, lastValid) == res.query

\* the query applyFilters filters with: the parsed one, or on a parse error
\* the last valid one
queryToApply(res, lastValid) == IF res.err # "" THEN lastValid ELSE res.query

\* the row loops of applyFilters: the rows the query accepts, in source
\* order; every row when there is no query
rowPasses(headers, query, row) ==
  IF query.isNil \/ Len(query.Expressions) = 0 THEN TRUE
  ELSE EvaluateRow(headers, query, row)

\* faulty variant of filterRows: accepted rows are prepended, not appended
filterRowsPrepending(headers, rows, query) ==
  LET n == Len(rows)
      Passes(i) == rowPasses(headers, query, rows[n - i])
      kept == SelectSeq(Iota(n), Passes)
  IN  [k \in 1..Len(kept) |-> n - 1 - kept[k]]

\* faulty variant of filterRows: the loop runs over the rows shown so far
\* and keeps their positions
filterRowsOfShown(headers, rows, query) ==
  LET Passes(i) ==
        /\ i < Len(filteredRowIndices)
        /\ rowPasses(headers, query, rows[filteredRowIndices[i + 1] + 1])
  IN  SelectSeq(Iota(Len(rows)), Passes)

filterRows(headers, rows, query) ==
  LET Passes(i) == rowPasses(headers, query, rows[i + 1])
  IN  SelectSeq(Iota(Len(rows)), Passes)

\* faulty variant of projectRows: newRow[j] = row[j]
projectRowsUnmapped(rows, rowIdx, cols) ==
  [k \in 1..Len(rowIdx) |->
     [j \in 1..Len(cols) |-> rows[rowIdx[k] + 1][j]]]

\* the inner loops of applyFilters: newRow[j] = row[colIdx] for the kept
\* rows, in the order of filteredRowIndices
projectRows(rows, rowIdx, cols) ==
  [k \in 1..Len(rowIdx) |->
     [j \in 1..Len(cols) |-> rows[rowIdx[k] + 1][cols[j] + 1]]]

\* filteredHeader: the names of the checked columns
keptHeader(headers, cols) == [j \in 1..Len(cols) |-> headers[cols[j] + 1]]

\* faulty variant of applyParsed: the rows are filtered in place, through
\* the slice filteredData shares with data since CreateDataBrowser
applyParsedInPlace(checks, opName, text, res) ==
  /\ visibleColumns' = checkedColumns(checks, Len(header))
  /\ filteredHeader' = keptHeader(header, visibleColumns')
  /\ errorLabel' = res.err
  /\ lastValidQuery' = IF res.err # "" THEN lastValidQuery ELSE res.query
  /\ filteredRowIndices' =
       filterRows(header, data, queryToApply(res, lastValidQuery))
  /\ filteredData' = projectRows(data, filteredRowIndices', visibleColumns')
  /\ data' = filteredData'
  /\ columnChecks' = checks
  /\ last' = [NoOp EXCEPT !.op = opName, !.q = text, !.err = res.err]
  /\ UNCHANGED << header, columnTypes, isNull, arrow_rec, call, sortState,
                  exported, workerVars >>

\* faulty variant of applyParsed: a blank query leaves the last valid query
\* in place
applyParsedKeepingLast(checks, opName, text, res) ==
  /\ visibleColumns' = checkedColumns(checks, Len(header))
  /\ filteredHeader' = keptHeader(header, visibleColumns')
  /\ errorLabel' = res.err
  /\ lastValidQuery' = IF res.err # "" \/ res.query.isNil
                         THEN lastValidQuery ELSE res.query
  /\ filteredRowIndices' =
       filterRows(header, data, queryToApply(res, lastValidQuery))
  /\ filteredData' = projectRows(data, filteredRowIndices', visibleColumns')
  /\ columnChecks' = checks
  /\ last' = [NoOp EXCEPT !.op = opName, !.q = text, !.err = res.err,
                          !.again = (last.op = opName /\ last.q = text)]
  /\ UNCHANGED << sourceVars, call, sortState, exported, workerVars >>

\* applyFilters after the parse: res is ParseQuery's result on text
applyParsed(checks, opName, text, res) ==
  /\ visibleColumns' = checkedColumns(checks, Len(header))
  /\ filteredHeader' = keptHeader(header, visibleColumns')
  /\ errorLabel' = res.err
  /\ lastValidQuery' = IF res.err # "" THEN lastValidQuery ELSE res.query
  /\ filteredRowIndices' =
       filterRows(header, data, queryToApply(res, lastValidQuery))
  /\ filteredData' = projectRows(data, filteredRowIndices', visibleColumns')
  /\ columnChecks' = checks
  /\ last' = [NoOp EXCEPT !.op = opName, !.q = text, !.err = res.err,
                          !.again = (last.op = opName /\ last.q = text)]
  /\ UNCHANGED << sourceVars, call, sortState, exported, workerVars >>

\* applyFilters on the trimmed text of the entry with the given check
\* boxes; opName names the handler that called it
applyFilters(checks, opName, text) ==
  applyParsed(checks, opName, text, ParseQuery(header, text))

\* the user edits the search entry; nothing is filtered until it is submitted
typeText(queries) ==
  \E q \in queries :
    /\ searchText' = q
    /\ last' = [NoOp EXCEPT !.op = "TypeText", !.q = q]
    /\ UNCHANGED << sourceVars, call, columnChecks, visibleColumns,
                    filteredRowIndices, lastValidQuery, sortState, errorLabel,
                    filteredData, filteredHeader, exported, workerVars >>

TypeText == typeText(ViewQueries)

\* searchEntry.OnSubmitted and the Search button: SetFilter(searchText)
OnSubmitted ==
  /\ applyFilters(columnChecks, "SetFilter", TrimSpace(searchText))
  /\ UNCHANGED searchText

\* clearSearchBtn: empty the entry, then applyFilters
ClearSearch ==
  /\ searchText' = << >>
  /\ applyFilters(columnChecks, "ClearSearch", TrimSpace(searchText'))

\* check.OnChanged: one column check box toggled, then applyFilters
OnChanged ==
  \E c \in 1..Len(header) :
    /\ applyFilters([columnChecks EXCEPT ![c] = ~columnChecks[c]],
                    "OnChanged", TrimSpace(searchText))
    /\ UNCHANGED searchText

\* selectAllBtn
SelectAll ==
  /\ applyFilters([c \in 1..Len(header) |-> TRUE], "SelectAll",
                  TrimSpace(searchText))
  /\ UNCHANGED searchText

\* deselectAllBtn
DeselectAll ==
  /\ applyFilters([c \in 1..Len(header) |-> FALSE], "DeselectAll",
                  TrimSpace(searchText))
  /\ UNCHANGED searchText

\* the table widget's length callback
VisibleRowCount == Len(filteredData)

VisibleColumnCount == Len(filteredHeader)

\* the table widget's cell callback: the text it shows for a cell id, read
\* only inside the guard; outside it nothing is read (the TableModel's
\* VisibleCell reports InvalidRow / InvalidColumn there)
VisibleCell(viewRow, viewCol) ==
  IF viewRow < Len(filteredData) /\ viewCol < Len(filteredHeader)
  THEN [read |-> TRUE, text |-> filteredData[viewRow + 1][viewCol + 1],
        err |-> ""]
  ELSE [read |-> FALSE, text |-> << >>,
        err |-> IF viewRow < Len(filteredData) THEN "InvalidColumn"
                ELSE "InvalidRow"]

\* the scalar types appendValueToBuilder copies; STRUCT and LIST are copied
\* field by field and element by element, any other type is appended as null
CopiedTypes ==
  {"STRING", "BINARY", "BOOL", "INT8", "INT16", "INT32", "INT64", "UINT8",
   "UINT16", "UINT32", "UINT64", "FLOAT16", "FLOAT32", "FLOAT64", "DATE32",
   "DATE64", "TIMESTAMP", "DECIMAL128"}

RECURSIVE appendValueDefaultingNulls(_, _)
\* faulty variant of appendValueToBuilder: a null is appended as the zero
\* value of its type
appendValueDefaultingNulls(type, val) ==
  IF val.null THEN scalarValue(<< >>)
  ELSE IF type.id \in CopiedTypes THEN scalarValue(val.v)
  ELSE IF type.id = "STRUCT"
    THEN nestedValue([i \in 1..Len(type.kids) |->
           appendValueDefaultingNulls(type.kids[i], val.kids[i])])
  ELSE IF type.id = "LIST"
    THEN nestedValue([i \in 1..Len(val.kids) |->
           appendValueDefaultingNulls(type.kids[1], val.kids[i])])
  ELSE nullValue

RECURSIVE appendValueAbortingOnUnknown(_, _)
\* faulty variant of appendValueToBuilder: a value of an unsupported type is
\* not appended at all (the builder is left one value short)
appendValueAbortingOnUnknown(type, val) ==
  IF val.null THEN nullValue
  ELSE IF type.id \in CopiedTypes THEN scalarValue(val.v)
  ELSE IF type.id = "STRUCT"
    THEN nestedValue([i \in 1..Len(type.kids) |->
           appendValueAbortingOnUnknown(type.kids[i], val.kids[i])])
  ELSE IF type.id = "LIST"
    THEN nestedValue([i \in 1..Len(val.kids) |->
           appendValueAbortingOnUnknown(type.kids[1], val.kids[i])])
  ELSE [null |-> FALSE, v |-> << "?" >>, kids |-> << >>]

RECURSIVE appendValueToBuilder(_, _)
\* appendValueToBuilder: the value the builder of the given type receives
\* for the source value val
appendValueToBuilder(type, val) ==
  IF val.null THEN nullValue
  ELSE IF type.id \in CopiedTypes THEN scalarValue(val.v)
  ELSE IF type.id = "STRUCT"
    THEN nestedValue([i \in 1..Len(type.kids) |->
           appendValueToBuilder(type.kids[i], val.kids[i])])
  ELSE IF type.id = "LIST"
    THEN nestedValue([i \in 1..Len(val.kids) |->
           appendValueToBuilder(type.kids[1], val.kids[i])])
  ELSE nullValue

\* the fields of the new schema: originalSchema.Field(colIdx) per visible
\* column
schemaTypes(rec, cols) == [i \in 1..Len(cols) |-> rec[cols[i] + 1].type]

\* one exported column: the cells of the tracked rows of a source column
buildColumn(col, rowIdx) ==
  [k \in 1..Len(rowIdx) |->
     appendValueToBuilder(col.type, col.cells[rowIdx[k] + 1])]

\* faulty variant of createFilteredArrowTable: an empty view is exported
createFilteredArrowTableUnchecked(fData, cols, rowIdx) ==
  [err |-> "",
   table |-> [made |-> TRUE, names |-> keptHeader(header, cols),
              types |-> schemaTypes(arrow_rec, cols),
              columns |-> << >>, numRows |-> Len(fData)]]

\* createFilteredArrowTable: an error for an empty view, else the fields of
\* the visible columns and, per column, the cells of the tracked rows
createFilteredArrowTable(fData, cols, rowIdx) ==
  IF Len(fData) = 0
  THEN [err |-> "no data to export", table |-> NoExport]
  ELSE [err |-> "",
        table |-> [made |-> TRUE, names |-> keptHeader(header, cols),
                   types |-> schemaTypes(arrow_rec, cols),
                   columns |-> [i \in 1..Len(cols) |->
                                  buildColumn(arrow_rec[cols[i] + 1], rowIdx)],
                   numRows |-> Len(fData)]]

\* the end of the export: an error dialog, or the table goes to the
\* serializer
exportDone(res) ==
  /\ last' = [NoOp EXCEPT !.op = "Export", !.err = res.err]
  /\ exported' = IF res.err # "" THEN exported ELSE res.table

\* exportData, once the file is chosen
Export ==
  /\ exportDone(createFilteredArrowTable(filteredData, visibleColumns,
                                         filteredRowIndices))
  /\ UNCHANGED << sourceVars, call, searchText, columnChecks, visibleColumns,
                  filteredRowIndices, lastValidQuery, sortState, errorLabel,
                  filteredData, filteredHeader, workerVars >>

Next ==
  \/ TypeText
  \/ OnSubmitted
  \/ ClearSearch
  \/ OnChanged
  \/ SelectAll
  \/ DeselectAll
  \/ Export

Spec == Init /\ [][Next]_vars

\* The same view opened on the table Mixed
InitExport ==
  /\ loadTable(Mixed, MixedRecord)
  /\ CreateDataBrowser

\* search texts for Mixed: empty, a bare term two of its rows hold in
\* different cases, a bare term in upper case one row holds in lower case,
\* white space only, a comparison on a column Mixed does not have
MixedQueries ==
  { <<>>, <<"d", "e", "v">>, <<"O", "P", "S">>, <<" ", "\t">>,
    <<"x", "=", "1">> }

TypeMixedText == typeText(MixedQueries)

NextExport ==
  \/ TypeMixedText
  \/ OnSubmitted
  \/ ClearSearch
  \/ OnChanged
  \/ Export

SpecExport == InitExport /\ [][NextExport]_vars

----------------------------------------------------------------------------
(* windows/dataBrowser.go: the export goroutine, one read of the view per   *)
(* step. Nothing in exportData or createFilteredArrowTable locks or copies  *)
(* the view, so the handlers of the owner run between the steps.            *)

\* the variables a step of the goroutine leaves alone
jobFrame == << sourceVars, call, searchText, columnChecks, visibleColumns,
               filteredRowIndices, lastValidQuery, sortState, errorLabel,
               filteredData, filteredHeader, getData >>

\* go func() ... createFilteredArrowTable: the check of len(filteredData)
ExportStart ==
  /\ exportJob.pc = "idle"
  /\ IF Len(filteredData) = 0
       THEN /\ last' = [NoOp EXCEPT !.op = "Export",
                                    !.err = "no data to export"]
            /\ UNCHANGED exportJob
       ELSE /\ exportJob' = [NoJob EXCEPT !.pc = "schema"]
            /\ UNCHANGED last
  /\ UNCHANGED << jobFrame, exported >>

\* the new schema: one field per element of visibleColumns
ExportSchema ==
  /\ exportJob.pc = "schema"
  /\ exportJob' = [exportJob EXCEPT
                     !.pc = "columns",
                     !.names = keptHeader(header, visibleColumns),
                     !.types = schemaTypes(arrow_rec, visibleColumns)]
  /\ UNCHANGED << jobFrame, exported, last >>

\* the column loop starts: range dataItem.visibleColumns
ExportColumns ==
  /\ exportJob.pc = "columns"
  /\ exportJob' = [exportJob EXCEPT !.pc = "column", !.cols = visibleColumns]
  /\ UNCHANGED << jobFrame, exported, last >>

\* one turn of the column loop: range dataItem.filteredRowIndices
ExportColumn ==
  /\ exportJob.pc = "column"
  /\ Len(exportJob.columns) < Len(exportJob.cols)
  /\ exportJob' =
       [exportJob EXCEPT
          !.columns =
            Append(exportJob.columns,
                   buildColumn(
                     arrow_rec[exportJob.cols[Len(exportJob.columns) + 1] + 1],
                     filteredRowIndices))]
  /\ UNCHANGED << jobFrame, exported, last >>

\* array.NewTable panics when the columns are not those of the schema or a
\* column is shorter than the row count
tableMismatch(job, rows) ==
  \/ Len(job.columns) # Len(job.names)
  \/ \E j \in 1..Len(job.columns) :
       \/ arrow_rec[job.cols[j] + 1].type # job.types[j]
       \/ header[job.cols[j] + 1] # job.names[j]
       \/ Len(job.columns[j]) < rows

\* array.NewTable(schema, columns, len(filteredData)) and the hand-over to
\* the serializer
newTable(job, rows) ==
  IF tableMismatch(job, rows)
    THEN /\ last' = [NoOp EXCEPT !.op = "Export", !.err = "panic"]
         /\ UNCHANGED exported
    ELSE /\ exported' = [made |-> TRUE, names |-> job.names,
                         types |-> job.types, columns |-> job.columns,
                         numRows |-> rows]
         /\ last' = [NoOp EXCEPT !.op = "Export"]

\* the end of createFilteredArrowTable: the row count is len(filteredData)
ExportTable ==
  /\ exportJob.pc = "column"
  /\ Len(exportJob.columns) = Len(exportJob.cols)
  /\ newTable(exportJob, Len(filteredData))
  /\ exportJob' = NoJob
  /\ UNCHANGED jobFrame

\* search texts for Stock: blank, a comparison one of its rows satisfies
StockQueries == { <<>>, <<"p", "r", "i", "c", "e", " ", ">", " ", "9">> }

TypeStockText == typeText(StockQueries)

InitRace ==
  /\ loadTable(Stock, flatRecord(Stock))
  /\ CreateDataBrowser

NextRace ==
  \/ TypeStockText
  \/ OnSubmitted
  \/ OnChanged
  \/ ExportStart
  \/ ExportSchema
  \/ ExportColumns
  \/ ExportColumn
  \/ ExportTable

SpecRace == InitRace /\ [][NextRace]_vars

----------------------------------------------------------------------------
(* windows/dataBrowser.go: GetData and its progress goroutine, which meet   *)
(* on the unbuffered channel c                                              *)

\* the variables GetData's signalling leaves alone
loadFrame == << sourceVars, call, searchText, columnChecks, visibleColumns,
                filteredRowIndices, lastValidQuery, sortState, errorLabel,
                last, filteredData, filteredHeader, exported, exportJob >>

\* most files in resp.AddFiles
MaxFiles == 3

\* ids of the files of a table
FileIds == {1, 2}

FileLists == UNION { [1..n -> FileIds] : n \in 0..MaxFiles }

\* options: none, ones applyQueryOptions accepts, ones it rejects
QueryOptionKinds == {"nil", "ok", "fail"}

\* the result of t.test on the loaded table
TestResults == {"ok", "fail"}

\* GetData up to the range loop: the channel is made and the progress
\* goroutine started
GetDataStart ==
  /\ getData.pc = "idle"
  /\ \E files \in FileLists, id \in FileIds, options \in QueryOptionKinds,
        test \in TestResults :
       getData' = [NoLoad EXCEPT !.pc = "loop", !.progress = "started",
                                 !.files = files, !.file_id = id,
                                 !.options = options, !.test = test]
  /\ UNCHANGED loadFrame

\* the progress goroutine before its loop: di.Show()
ProgressShow ==
  /\ getData.progress = "started"
  /\ getData' = [getData EXCEPT !.progress = "polling", !.dialog = TRUE]
  /\ UNCHANGED loadFrame

\* faulty variant of loopStep: GetData sends once after the range loop
loopStepSendingAtEnd(g) ==
  IF g.idx >= Len(g.files) THEN [g EXCEPT !.pc = "sendReturn"]
  ELSE IF g.files[g.idx + 1] # g.file_id THEN [g EXCEPT !.idx = g.idx + 1]
  ELSE IF g.options = "fail" \/ g.test = "fail"
       THEN [g EXCEPT !.pc = "sendReturn"]
  ELSE [g EXCEPT !.idx = g.idx + 1, !.loaded = g.loaded + 1]

\* one turn of `for _, v := range resp.AddFiles` up to its send or its end
loopStep(g) ==
  IF g.idx >= Len(g.files) THEN [g EXCEPT !.pc = "returned"]
  ELSE IF g.files[g.idx + 1] # g.file_id THEN [g EXCEPT !.idx = g.idx + 1]
  ELSE IF g.options = "fail" \/ g.test = "fail"
       THEN [g EXCEPT !.pc = "sendReturn"]
  ELSE [g EXCEPT !.pc = "sendNext", !.loaded = g.loaded + 1]

GetDataLoop ==
  /\ getData.pc = "loop"
  /\ getData' = loopStep(getData)
  /\ UNCHANGED loadFrame

\* GetData after its send was received
afterSend(g) ==
  IF g.pc = "sendReturn" THEN [g EXCEPT !.pc = "returned"]
  ELSE [g EXCEPT !.pc = "loop", !.idx = g.idx + 1]

\* `c <- true` meets `case <-c`: di.Hide(), and the goroutine returns
Signal ==
  /\ getData.pc \in {"sendReturn", "sendNext"}
  /\ getData.progress = "polling"
  /\ getData' = [afterSend(getData) EXCEPT !.progress = "returned",
                                           !.dialog = FALSE]
  /\ UNCHANGED loadFrame

InitLoad ==
  /\ loadTable(Stock, flatRecord(Stock))
  /\ CreateDataBrowser

NextLoad ==
  \/ GetDataStart
  \/ ProgressShow
  \/ GetDataLoop
  \/ Signal

\* both goroutines are scheduled whenever they can run; the default branch
\* of the select only sleeps and polls again
SpecLoad == InitLoad /\ [][NextLoad]_vars /\ WF_vars(NextLoad)

----------------------------------------------------------------------------
(* TableModel: SetFilter, Sort and SetVisibleColumns over the same view    *)
(* state (visibleRowIndices = filteredRowIndices, visibleColumnIndices =   *)
(* visibleColumns, activeQuery = lastValidQuery).  The query engine is     *)
(* windows/queryParser.go; IsSorted is datatable.SortState.IsSorted.       *)

\* SortState.IsSorted
IsSorted(st) == st.Column >= 0 /\ st.Direction # "SortNone"

NumericTypes == {"TypeInt", "TypeFloat", "TypeDecimal"}

\* case-insensitive lexicographic comparison of the formatted texts
compareText(a, b) == Compare(ToLower(a), ToLower(b))

\* numeric when both texts parse as numbers, else the text comparison
compareNumbers(x, y, a, b) ==
  IF x.ok /\ y.ok THEN Sign(x.num * y.den, y.num * x.den)
  ELSE compareText(a, b)

\* the comparison policy of Sort on two non-null cells of a column of
\* type t (Bool texts false < true order as texts do; the tables of the
\* model hold no Date or Timestamp column)
compareValues(t, a, b) ==
  IF t \in NumericTypes THEN compareNumbers(ParseFloat(a), ParseFloat(b), a, b)
  ELSE compareText(a, b)

\* faulty variant of valueLess: a null is the largest key, so it comes
\* first in a descending sort
valueLessNullsAsLargest(dir, aNull, bNull, cmp) ==
  IF dir = "SortAscending"
  THEN (IF aNull THEN FALSE ELSE IF bNull THEN TRUE ELSE cmp < 0)
  ELSE (IF bNull THEN FALSE ELSE IF aNull THEN TRUE ELSE cmp > 0)

\* faulty variant of valueLess: the direction is ignored
valueLessAscendingOnly(dir, aNull, bNull, cmp) ==
  IF aNull THEN FALSE ELSE IF bNull THEN TRUE ELSE cmp < 0

\* nulls after every non-null value in both directions
valueLess(dir, aNull, bNull, cmp) ==
  IF aNull THEN FALSE
  ELSE IF bNull THEN TRUE
  ELSE IF dir = "SortAscending" THEN cmp < 0
  ELSE cmp > 0

\* source row a sorts strictly before source row b on column col
rowLess(col, dir, a, b) ==
  valueLess(dir, isNull[a + 1][col + 1], isNull[b + 1][col + 1],
            compareValues(columnTypes[col + 1], data[a + 1][col + 1],
                          data[b + 1][col + 1]))

insertAt(sorted, x, k) ==
  SubSeq(sorted, 1, k) \o << x >> \o SubSeq(sorted, k + 1, Len(sorted))

\* k elements stay before x: those before the first element x sorts before
insertBefore(sorted, x, later) ==
  insertAt(sorted, x, IF later = {} THEN Len(sorted) ELSE Least(later) - 1)

insertRow(sorted, x, col, dir) ==
  insertBefore(sorted, x,
               {i \in 1..Len(sorted) : rowLess(col, dir, x, sorted[i])})

\* stable sort of rows[1..n] by column col in direction dir
RECURSIVE sortRows(_, _, _, _)
sortRows(rows, n, col, dir) ==
  IF n = 0 THEN << >>
  ELSE insertRow(sortRows(rows, n - 1, col, dir), rows[n], col, dir)

\* the current sort applied to a row set
applySort(rows, st) ==
  IF IsSorted(st) THEN sortRows(rows, Len(rows), st.Column, st.Direction)
  ELSE rows

\* faulty variant of ascendingRows: every source row comes back
allRowsAscending(rows, n) == Iota(n)

\* the rows of a row set in ascending original order
ascendingRows(rows, n) ==
  LET Shown(i) == \E k \in 1..Len(rows) : rows[k] = i
  IN  SelectSeq(Iota(n), Shown)

\* argument lists with an index out of range: above, below, after a valid one
BadIndexLists == { << Len(header) >>, << -1 >>, << 0, Len(header) >> }

\* every list of in-range indices up to MaxIndices long, duplicates included,
\* and the lists with an index out of range
IndexLists ==
  UNION {[1..n -> 0..(Len(header) - 1)] : n \in 0..MaxIndices}
    \cup BadIndexLists

\* state of the browser window that the TableModel does not have
tableVars == << searchText, columnChecks, errorLabel, filteredData,
                filteredHeader, exported, workerVars >>

\* SetFilter after the parse
setFilterParsed(q, res) ==
  IF res.err # ""
  THEN /\ last' = [NoOp EXCEPT !.op = "SetFilter", !.q = q,
                               !.err = "InvalidFilter"]
       /\ UNCHANGED << filteredRowIndices, lastValidQuery >>
  ELSE /\ last' = [NoOp EXCEPT !.op = "SetFilter", !.q = q]
       /\ lastValidQuery' = res.query
       /\ filteredRowIndices' =
            applySort(filterRows(header, data, res.query), sortState)

SetFilter ==
  \E q \in ViewQueries :
    /\ setFilterParsed(q, ParseQuery(header, q))
    /\ UNCHANGED << sourceVars, call, tableVars, visibleColumns, sortState >>

\* Sort fails on a column outside the source range.  The spec does not say
\* whether the column is validated before direction None clears the sort:
\* validateFirst picks either order.
sortColumnRejected(column, direction, validateFirst) ==
  /\ column < 0 \/ column >= Len(header)
  /\ direction # "SortNone" \/ validateFirst

Sort ==
  \E column \in -1..Len(header),
     direction \in {"SortNone", "SortAscending", "SortDescending"},
     validateFirst \in BOOLEAN :
    /\ IF sortColumnRejected(column, direction, validateFirst)
       THEN /\ last' = [NoOp EXCEPT !.op = "Sort", !.col = column,
                                    !.dir = direction,
                                    !.err = "InvalidSortColumn"]
            /\ UNCHANGED << sortState, filteredRowIndices >>
       ELSE IF direction = "SortNone"
       THEN /\ sortState' = [Column |-> -1, Direction |-> "SortNone"]
            /\ filteredRowIndices' =
                 ascendingRows(filteredRowIndices, Len(data))
            /\ last' = [NoOp EXCEPT !.op = "Sort", !.col = column,
                                    !.dir = direction]
       ELSE /\ sortState' = [Column |-> column, Direction |-> direction]
            /\ filteredRowIndices' =
                 sortRows(filteredRowIndices, Len(filteredRowIndices),
                          column, direction)
            /\ last' = [NoOp EXCEPT !.op = "Sort", !.col = column,
                                    !.dir = direction]
    /\ UNCHANGED << sourceVars, call, tableVars, visibleColumns, lastValidQuery >>

\* VisibleColumnName(viewCol): the source name of the projected column
VisibleColumnName(viewCol) == header[visibleColumns[viewCol + 1] + 1]

\* faulty variant of keptColumns: the list is kept as a set, in source order
keptColumnsInSourceOrder(indices) ==
  LET Listed(i) == \E k \in 1..Len(indices) : indices[k] = i
  IN  SelectSeq(Iota(Len(header)), Listed)

\* the projection SetVisibleColumns stores for a valid argument list
keptColumns(indices) == indices

\* faulty variant of indexOutOfRange: only the first index is validated
firstIndexOutOfRange(indices) ==
  Len(indices) > 0 /\ (indices[1] < 0 \/ indices[1] >= Len(header))

\* SetVisibleColumns fails if any index is out of the source range
indexOutOfRange(indices) ==
  \E k \in 1..Len(indices) : indices[k] < 0 \/ indices[k] >= Len(header)

SetVisibleColumns ==
  \E indices \in IndexLists :
    /\ IF indexOutOfRange(indices)
       THEN /\ last' = [NoOp EXCEPT !.op = "SetVisibleColumns",
                                    !.indices = indices,
                                    !.err = "InvalidColumn"]
            /\ UNCHANGED visibleColumns
       ELSE /\ last' = [NoOp EXCEPT !.op = "SetVisibleColumns",
                                    !.indices = indices]
            /\ visibleColumns' = keptColumns(indices)
    /\ UNCHANGED << sourceVars, call, tableVars, filteredRowIndices,
                    lastValidQuery, sortState >>

NextTM ==
  \/ SetFilter
  \/ Sort
  \/ SetVisibleColumns

SpecTM == Init /\ [][NextTM]_vars

----------------------------------------------------------------------------
(* Direct calls of the query engine on generated query texts              *)

\* longest word list handed to ParseQuery
MaxWords == 4

\* most expressions in a query handed to EvaluateRow
MaxExprs == 3

Space == << " " >>

AND == << "A", "N", "D" >>

OR == << "O", "R" >>

\* the words joined by single spaces
RECURSIVE JoinWords(_)
JoinWords(ws) ==
  IF ws = << >> THEN << >>
  ELSE IF Len(ws) = 1 THEN ws[1]
  ELSE ws[1] \o Space \o JoinWords(Tail(ws))

\* connectors in upper and lower case, a bare term, a comparison
Words ==
  { AND, << "o", "r" >>, << "d", "e", "v" >>,
    << "a", "g", "e", ">", "=", "1", "8" >> }

WordLists == UNION {[1..n -> Words] : n \in 1..MaxWords}

\* every spelling of a name in upper and lower case letters
CaseVariants(name) ==
  {[i \in 1..Len(name) |->
      IF i \in up THEN ToUpperCh(name[i]) ELSE ToLowerCh(name[i])] :
    up \in SUBSET (1..Len(name))}

UnknownColumns ==
  { << "b", "o", "g", "u", "s" >>, << "a", "g" >>, << "Q", "t", "y", "s" >> }

\* column parts: every case variant of every header, and unknown names
ColumnTexts ==
  UNION {CaseVariants(header[i]) : i \in 1..Len(header)} \cup UnknownColumns

\* right-hand values: none, a number, a quoted text with a space, a quoted
\* text with the word AND
ValueTexts ==
  { << >>, << "1", "8" >>, << "'", "a", " ", "b", "'" >>,
    << "'", "a", " ", "A", "N", "D", " ", "b", "'" >> }

\* what follows the comparison: nothing, or a second expression
Suffixes == { << >>, << " ", "A", "N", "D", " ", "d", "e", "v" >> }

\* expressions of the queries handed to EvaluateRow
EvalExprs ==
  << << "a", "g", "e", " ", ">", "=", " ", "1", "8" >>,
     << "a", "g", "e", " ", "<", " ", "6", "5" >>,
     << "d", "e", "v" >>,
     << "q", "t", "y", " ", ">", " ", "1" >> >>

\* e[1] c[1] e[2] ... c[n-1] e[n] as a word list
RECURSIVE interleave(_, _)
interleave(es, cs) ==
  IF Len(es) = 1 THEN << EvalExprs[es[1]] >>
  ELSE << EvalExprs[es[1]], cs[1] >> \o interleave(Tail(es), Tail(cs))

\* the engine is stateless between calls: one call per behaviour covers all
recordParse(fn, q, words, column, value, res) ==
  /\ call = NoCall
  /\ call' = [NoCall EXCEPT !.fn = fn, !.q = q, !.words = words,
                         !.column = column, !.value = value,
                         !.query = res.query, !.err = res.err]

\* ParseQuery on a list of words joined by spaces
ParseWords ==
  \E ws \in WordLists :
    /\ recordParse("ParseWords", JoinWords(ws), ws, << >>, << >>,
                   ParseQuery(header, JoinWords(ws)))
    /\ UNCHANGED << sourceVars, viewVars >>

\* ParseQuery on `column OP value`, with or without spaces around OP
ParseComparison ==
  \E c \in ColumnTexts, k \in 1..Len(operators), v \in ValueTexts,
     pad \in {<< >>, Space}, suffix \in Suffixes :
    /\ recordParse("ParseComparison",
                   c \o pad \o operators[k].symbol \o pad \o v \o suffix,
                   << >>, c, v,
                   ParseQuery(header,
                     c \o pad \o operators[k].symbol \o pad \o v \o suffix))
    /\ UNCHANGED << sourceVars, viewVars >>

recordEval(words, r, res) ==
  /\ call = NoCall
  /\ res.err = ""
  /\ call' = [NoCall EXCEPT !.fn = "EvaluateRow", !.q = JoinWords(words),
                            !.words = words, !.row = r, !.query = res.query,
                            !.result = EvaluateRow(header, res.query,
                                                   data[r + 1])]

\* EvaluateRow on a parsed query of up to MaxExprs expressions and a row
CallEvaluateRow ==
  \E n \in 1..MaxExprs :
    \E es \in [1..n -> 1..Len(EvalExprs)], cs \in [1..(n - 1) -> {AND, OR}],
       r \in 0..(Len(data) - 1) :
      /\ recordEval(interleave(es, cs), r,
                    ParseQuery(header, JoinWords(interleave(es, cs))))
      /\ UNCHANGED << sourceVars, viewVars >>

\* cell texts and right-hand values of ordering comparisons: numbers, a
\* number with spaces around it, texts, a number followed by a letter, and
\* the integers 2^53 and 2^53 + 1
CompareCells ==
  { << "1", "0" >>, << "9" >>, << " ", "1", "0", " " >>, << "9", "a" >>,
    << "-", "5" >>, << "1", ".", "5" >>, << "B" >>, << >>,
    TwoTo53, succDigits(TwoTo53) }

CompareValues ==
  { << "9" >>, << "1", "0" >>, << "9", "a" >>, << "1", ".", "5", "0" >>,
    << "b" >>, TwoTo53, succDigits(TwoTo53) }

OrderingOperators == { << ">" >>, << "<" >>, << ">", "=" >>, << "<", "=" >> }

recordCompare(cell, op, value, res) ==
  /\ call = NoCall
  /\ call' = [NoCall EXCEPT
                !.fn = "Compare", !.cell = cell, !.op = op, !.value = value,
                !.query = res.query, !.err = res.err,
                !.result = /\ res.err = ""
                           /\ EvaluateRow(header, res.query,
                                          [c \in 1..Len(header) |-> cell])]

\* EvaluateRow of `column OP value` on a row whose cells all hold one text
CallCompare ==
  \E cell \in CompareCells, op \in OrderingOperators, v \in CompareValues :
    /\ recordCompare(cell, op, v,
                     ParseQuery(header, header[1] \o Space \o op \o Space \o v))
    /\ UNCHANGED << sourceVars, viewVars >>

\* ---- CompositeFilter (internal/filter/composite.go) ----

\* LogicOp values (iota)
LogicAND == 0
LogicOR == 1

\* LogicOp values a caller can pass: the two defined ones and two others
LogicOps == {LogicAND, LogicOR, 2, -1}

\* Longest child list of a CompositeFilter
MaxFilters == 2

\* What a child filter's Evaluate returns on the row: (true, nil),
\* (false, nil) or (_, err)
ChildOutcomes == {"pass", "fail", "error"}

leafFilter(o) == [leaf |-> TRUE, outcome |-> o, filters |-> << >>, logic |-> -1]

compositeFilter(fs, logic) ==
  [leaf |-> FALSE, outcome |-> "none", filters |-> fs, logic |-> logic]

\* Children: leaf filters and CompositeFilters of leaf filters
NestedFilters ==
  { compositeFilter(<< >>, LogicAND), compositeFilter(<< >>, LogicOR),
    compositeFilter(<< >>, 2),
    compositeFilter(<< "pass", "error" >>, LogicOR),
    compositeFilter(<< "fail", "error" >>, LogicAND),
    compositeFilter(<< "fail", "pass" >>, 2) }

ChildFilters == { leafFilter(o) : o \in ChildOutcomes } \cup NestedFilters

FilterLists == UNION { [1..n -> ChildFilters] : n \in 0..MaxFilters }

\* Index of the first child that decides the loop, -1 when none does
firstDeciding(hits) ==
  IF hits = {} THEN -1 ELSE CHOOSE i \in hits : \A j \in hits : i <= j

\* Faulty variant of loopResult: every child is evaluated before the result
\* is made, and the error of any of them is returned
loopResultEager(outcomes, k, whenAllContinue) ==
  IF \E i \in 1..Len(outcomes) : outcomes[i] = "error"
    THEN [pass |-> FALSE, err |-> "child error",
          evaluated |-> Len(outcomes)]
    ELSE [pass |-> IF k < 0 THEN whenAllContinue ELSE ~whenAllContinue,
          err |-> "", evaluated |-> Len(outcomes)]

\* Result of a loop over the children: k is the deciding child (1-based),
\* whenAllContinue the result when the loop runs to its end
loopResult(outcomes, k, whenAllContinue) ==
  IF k < 0
    THEN [pass |-> whenAllContinue, err |-> "", evaluated |-> Len(outcomes)]
    ELSE IF outcomes[k] = "error"
      THEN [pass |-> FALSE, err |-> "child error", evaluated |-> k]
      ELSE [pass |-> ~whenAllContinue, err |-> "", evaluated |-> k]

\* Faulty variant of evaluateOutcomes: no early return for an empty list
evaluateOutcomesNoEmptyCheck(outcomes, logic) ==
  IF logic = LogicAND
    THEN loopResult(outcomes,
           firstDeciding({ i \in 1..Len(outcomes) : outcomes[i] # "pass" }),
           TRUE)
    ELSE IF logic = LogicOR
      THEN loopResult(outcomes,
             firstDeciding({ i \in 1..Len(outcomes) : outcomes[i] # "fail" }),
             FALSE)
      ELSE [pass |-> FALSE, err |-> "InvalidFilter", evaluated |-> 0]

\* CompositeFilter.Evaluate on the outcomes of its children
evaluateOutcomes(outcomes, logic) ==
  IF Len(outcomes) = 0
    THEN [pass |-> TRUE, err |-> "", evaluated |-> 0]
    ELSE IF logic = LogicAND
      THEN loopResult(outcomes,
             firstDeciding({ i \in 1..Len(outcomes) : outcomes[i] # "pass" }),
             TRUE)
      ELSE IF logic = LogicOR
        THEN loopResult(outcomes,
               firstDeciding({ i \in 1..Len(outcomes) : outcomes[i] # "fail" }),
               FALSE)
        ELSE [pass |-> FALSE, err |-> "InvalidFilter", evaluated |-> 0]

\* (passes, err) of a filter as an outcome
outcomeOf(res) ==
  IF res.err # "" THEN "error" ELSE IF res.pass THEN "pass" ELSE "fail"

\* filter.Evaluate(row, columnNames) of one child
childOutcome(f) ==
  IF f.leaf THEN f.outcome ELSE outcomeOf(evaluateOutcomes(f.filters, f.logic))

\* CompositeFilter{Filters: fs, Logic: logic}.Evaluate
CompositeEvaluate(fs, logic) ==
  evaluateOutcomes([i \in 1..Len(fs) |-> childOutcome(fs[i])], logic)

recordComposite(fs, logic, res) ==
  /\ call = NoCall
  /\ call' = [NoCall EXCEPT !.fn = "CompositeEvaluate", !.filters = fs,
                            !.logic = logic, !.result = res.pass,
                            !.err = res.err, !.evaluated = res.evaluated]

\* Evaluate of a CompositeFilter of up to MaxFilters children on a row
CallCompositeEvaluate ==
  \E fs \in FilterLists, logic \in LogicOps :
    /\ recordComposite(fs, logic, CompositeEvaluate(fs, logic))
    /\ UNCHANGED << sourceVars, viewVars >>

NextParse ==
  \/ ParseWords
  \/ ParseComparison
  \/ CallEvaluateRow
  \/ CallCompare
  \/ CallCompositeEvaluate

SpecParse == Init /\ [][NextParse]_vars

----------------------------------------------------------------------------
(* The navigation tree: node ids and the node map LoadShares fills          *)

NodeTypeShare == <<"s", "h", "a", "r", "e">>

NodeTypeSchema == <<"s", "c", "h", "e", "m", "a">>

NodeTypeTable == <<"t", "a", "b", "l", "e">>

Colon == <<":">>

\* the arguments of GenerateNodeID for a node, and the results of
\* ParseNodeID
nodeKey(nodeType, share, schema, table) ==
  [nodeType |-> nodeType, share |-> share, schema |-> schema,
   table |-> table]

\* faulty variant of GenerateNodeID: the components are joined without
\* their labels
GenerateNodeIDUnlabelled(n) ==
  IF n.nodeType = NodeTypeShare THEN n.share
  ELSE IF n.nodeType = NodeTypeSchema THEN n.share \o Colon \o n.schema
  ELSE IF n.nodeType = NodeTypeTable
       THEN n.share \o Colon \o n.schema \o Colon \o n.table
  ELSE << >>

\* fmt.Sprintf("share:%s"), ("share:%s:schema:%s"),
\* ("share:%s:schema:%s:table:%s")
GenerateNodeID(n) ==
  IF n.nodeType = NodeTypeShare THEN NodeTypeShare \o Colon \o n.share
  ELSE IF n.nodeType = NodeTypeSchema
       THEN NodeTypeShare \o Colon \o n.share \o Colon
              \o NodeTypeSchema \o Colon \o n.schema
  ELSE IF n.nodeType = NodeTypeTable
       THEN NodeTypeShare \o Colon \o n.share \o Colon
              \o NodeTypeSchema \o Colon \o n.schema \o Colon
              \o NodeTypeTable \o Colon \o n.table
  ELSE << >>

\* strings.Split(s, ":")
RECURSIVE SplitColon(_)
SplitColon(s) ==
  LET hits == {i \in 1..Len(s) : s[i] = ":"}
  IN  IF hits = {} THEN << s >>
      ELSE LET i == Least(hits)
           IN  << SubSeq(s, 1, i - 1) >>
                 \o SplitColon(SubSeq(s, i + 1, Len(s)))

\* the three ifs of ParseNodeID over the parts of the id
parseNodeParts(parts) ==
  LET isShare == Len(parts) >= 2 /\ parts[1] = NodeTypeShare
      isSchema == Len(parts) >= 4 /\ parts[3] = NodeTypeSchema
      isTable == Len(parts) >= 6 /\ parts[5] = NodeTypeTable
  IN  nodeKey(IF isTable THEN NodeTypeTable
              ELSE IF isSchema THEN NodeTypeSchema
              ELSE IF isShare THEN NodeTypeShare ELSE << >>,
              IF isShare THEN parts[2] ELSE << >>,
              IF isSchema THEN parts[4] ELSE << >>,
              IF isTable THEN parts[6] ELSE << >>)

ParseNodeID(nodeID) == parseNodeParts(SplitColon(nodeID))

\* names of shares, schemas and tables
NodeNames ==
  { <<"a">>, <<"b">>, <<"a", ":", "b">>,
    <<"a", ":", "s", "c", "h", "e", "m", "a", ":", "b">> }

\* the argument tuples LoadShares hands to GenerateNodeID
ShareNodes == { nodeKey(NodeTypeShare, s, << >>, << >>) : s \in NodeNames }

SchemaNodes ==
  { nodeKey(NodeTypeSchema, s, c, << >>) : s \in NodeNames, c \in NodeNames }

TableNodes ==
  { nodeKey(NodeTypeTable, s, c, t) :
      s \in {<<"a">>, <<"a", ":", "b">>}, c \in NodeNames, t \in NodeNames }

TreeNodes == ShareNodes \cup SchemaNodes \cup TableNodes

\* GenerateNodeID for two nodes, and ParseNodeID of the first id
CallGenerateNodeID ==
  /\ call = NoCall
  /\ \E n \in TreeNodes, m \in ShareNodes \cup SchemaNodes :
       call' = [NoCall EXCEPT !.fn = "GenerateNodeID",
                              !.nodes = << n, m >>,
                              !.ids = << GenerateNodeID(n),
                                         GenerateNodeID(m) >>,
                              !.parsed = ParseNodeID(GenerateNodeID(n))]
  /\ UNCHANGED << sourceVars, viewVars >>

\* most shares and most tables the server lists
MaxShares == 2

MaxTables == 2

ShareLists == UNION { [1..n -> NodeNames] : n \in 0..MaxShares }

\* the tables the server lists: share, schema and name
ListedTables ==
  { nodeKey(NodeTypeTable, s, <<"b">>, t) :
      s \in {<<"a">>, <<"a", ":", "s", "c", "h", "e", "m", "a", ":", "b">>},
      t \in {<<"t">>, <<"u">>} }

TableLists == UNION { [1..n -> ListedTables] : n \in 0..MaxTables }

\* one write nt.nodes[id] = node
nodeWrite(n) == [id |-> GenerateNodeID(n), node |-> n]

\* the writes of the first loop of LoadShares: one per listed share
shareWrites(shares) ==
  [i \in 1..Len(shares) |->
     nodeWrite(nodeKey(NodeTypeShare, shares[i], << >>, << >>))]

\* the writes of one turn of the second loop: the share node unless
\* shareMap has the name, the schema node unless schemaMap has its id, the
\* table node
tableWrites(t, shareNames, schemaIDs) ==
  LET schemaNode == nodeKey(NodeTypeSchema, t.share, t.schema, << >>)
  IN  (IF t.share \in shareNames THEN << >>
       ELSE << nodeWrite(nodeKey(NodeTypeShare, t.share, << >>, << >>)) >>)
      \o (IF GenerateNodeID(schemaNode) \in schemaIDs THEN << >>
          ELSE << nodeWrite(schemaNode) >>)
      \o << nodeWrite(t) >>

\* the second loop of LoadShares from table k on
RECURSIVE allTableWrites(_, _, _, _)
allTableWrites(tables, k, shareNames, schemaIDs) ==
  IF k > Len(tables) THEN << >>
  ELSE LET t == tables[k]
       IN  tableWrites(t, shareNames, schemaIDs)
             \o allTableWrites(
                  tables, k + 1, shareNames \cup {t.share},
                  schemaIDs \cup {GenerateNodeID(
                     nodeKey(NodeTypeSchema, t.share, t.schema, << >>))})

\* the writes to nt.nodes of one LoadShares call, in order
LoadSharesWrites(shares, tables) ==
  shareWrites(shares)
    \o allTableWrites(tables, 1, {shares[i] : i \in 1..Len(shares)}, {})

\* LoadShares: the server lists the shares and the tables, or fails
CallLoadShares ==
  /\ call = NoCall
  /\ \E shares \in ShareLists, tables \in TableLists,
        listing \in {"ok", "failed to list shares",
                     "failed to list all tables"} :
       call' = [NoCall EXCEPT
                  !.fn = "LoadShares", !.err = IF listing = "ok" THEN ""
                                                ELSE listing,
                  !.writes = IF listing = "ok"
                               THEN LoadSharesWrites(shares, tables)
                             ELSE IF listing = "failed to list shares"
                               THEN << >>
                             ELSE shareWrites(shares)]
  /\ UNCHANGED << sourceVars, viewVars >>

NextTree ==
  \/ CallGenerateNodeID
  \/ CallLoadShares

SpecTree == InitLoad /\ [][NextTree]_vars

----------------------------------------------------------------------------
(* Properties of the view                                                  *)

StrictlyAscending(seq) ==
  \A i \in 1..Len(seq) : \A j \in 1..Len(seq) : i < j => seq[i] < seq[j]

NoDuplicates(seq) ==
  \A i \in 1..Len(seq) : \A j \in 1..Len(seq) : i # j => seq[i] # seq[j]

\* position of source row r in the row projection
PositionIn(rows, r) == CHOOSE k \in 1..Len(rows) : rows[k] = r

Shows(rows, r) == \E k \in 1..Len(rows) : rows[k] = r

\* C1: a SetFilter call whose text fails to parse leaves activeQuery
\* (lastValidQuery) and visibleRowIndices (filteredRowIndices) exactly as
\* they were before the call and reports the error.
C1_FailedSetFilterKeepsState ==
  [][ (last'.op = "SetFilter" /\ last'.err # "")
        => /\ lastValidQuery' = lastValidQuery
           /\ filteredRowIndices' = filteredRowIndices
           /\ errorLabel' # "" ]_vars

\* C1 witness: a failing SetFilter has acted while an earlier valid filter
\* that hides rows is active
C1_Witness ==
  /\ last.op = "SetFilter"
  /\ last.err # ""
  /\ ~lastValidQuery.isNil
  /\ Len(filteredRowIndices) > 0
  /\ Len(filteredRowIndices) < Len(data)

\* C6: every element of visibleRowIndices is a source row index, every
\* element of visibleColumnIndices is a source column index, and neither
\* sequence holds an index twice.
C6_ProjectionsValid ==
  /\ \A k \in 1..Len(filteredRowIndices) :
       filteredRowIndices[k] \in 0..(Len(data) - 1)
  /\ \A k \in 1..Len(visibleColumns) :
       visibleColumns[k] \in 0..(Len(header) - 1)
  /\ NoDuplicates(filteredRowIndices)
  /\ NoDuplicates(visibleColumns)

\* rows is ordered by the sort st: no row sorts strictly before an earlier one
OrderedBy(rows, st) ==
  \A i \in 1..Len(rows) : \A j \in 1..Len(rows) :
    i < j => ~rowLess(st.Column, st.Direction, rows[j], rows[i])

\* C7: when the view is not sorted visibleRowIndices is strictly ascending
\* by original row index, and when it is sorted visibleRowIndices is
\* ordered by the active sort column and direction.
C7_RowOrder ==
  IF IsSorted(sortState) THEN OrderedBy(filteredRowIndices, sortState)
  ELSE StrictlyAscending(filteredRowIndices)

\* C7 witness: a successful SetFilter has acted on a sorted view and left
\* at least two rows in an order that is not the original one
C7_Witness ==
  /\ IsSorted(sortState)
  /\ last.op = "SetFilter"
  /\ last.err = ""
  /\ ~lastValidQuery.isNil
  /\ Len(filteredRowIndices) >= 2
  /\ ~StrictlyAscending(filteredRowIndices)

\* C8: a successful SetFilter that leaves the sort state unchanged keeps
\* the relative order of any two rows visible before and after it.
C8_FilterKeepsRelativeOrder ==
  [][ (last'.op = "SetFilter" /\ last'.err = "" /\ sortState' = sortState)
        => \A a \in 0..(Len(data) - 1) : \A b \in 0..(Len(data) - 1) :
             ( /\ Shows(filteredRowIndices, a) /\ Shows(filteredRowIndices, b)
               /\ Shows(filteredRowIndices', a) /\ Shows(filteredRowIndices', b)
               /\ PositionIn(filteredRowIndices, a)
                    < PositionIn(filteredRowIndices, b) )
             => PositionIn(filteredRowIndices', a)
                  < PositionIn(filteredRowIndices', b) ]_vars

C10_CallerOrderKept ==
  (last.op = "SetVisibleColumns" /\ last.err = "")
    => /\ visibleColumns = last.indices
       /\ \A j \in 0..(Len(last.indices) - 1) :
            VisibleColumnName(j) = header[last.indices[j + 1] + 1]

\* C10 witness: SetVisibleColumns([2,0]) on the 3-column source; view
\* column 0 is named as source column 2 and view column 1 as source column 0
C10_Witness ==
  /\ last.op = "SetVisibleColumns"
  /\ last.err = ""
  /\ last.indices = << 2, 0 >>
  /\ Len(header) = 3
  /\ VisibleColumnName(0) = header[3]
  /\ VisibleColumnName(1) = header[1]

----------------------------------------------------------------------------
(* Properties of the query engine                                          *)

KnownColumn(c) == \E i \in 1..Len(header) : EqualFold(header[i], c)

IsConnector(w) == ToUpper(w) \in {AND, OR}

\* a word list that starts or ends with a connector (a list of connectors
\* only does both) or has two connectors next to each other
BadlyConnected(ws) ==
  \/ IsConnector(ws[1])
  \/ IsConnector(ws[Len(ws)])
  \/ \E i \in 1..(Len(ws) - 1) : IsConnector(ws[i]) /\ IsConnector(ws[i + 1])

\* the connectors of a word list, in order, as logical operators
ConnectorsOf(ws) == logicOpsOf([i \in 1..Len(SelectSeq(ws, IsConnector)) |->
                                  [text |-> SelectSeq(ws, IsConnector)[i]]])

\* the words that open an expression: the first, and those after a connector
ExpressionStarts(ws) ==
  {i \in 1..Len(ws) :
     ~IsConnector(ws[i]) /\ (i = 1 \/ IsConnector(ws[i - 1]))}

\* C2 as stated: a known column, an operator and no right-hand value is
\* rejected by ParseQuery, never accepted as a comparison with "".
C2_MissingValueRejected ==
  (call.fn = "ParseComparison" /\ call.value = << >>
     /\ KnownColumn(call.column))
    => call.err # ""

C4_QueryWellFormed ==
  /\ (call.fn \in {"ParseWords", "ParseComparison", "EvaluateRow", "Compare"}
        /\ call.err = "") =>
       /\ ~call.query.isNil
       /\ Len(call.query.Expressions) >= 1
       /\ Len(call.query.LogicOps) = Len(call.query.Expressions) - 1
  /\ (call.fn = "ParseWords" /\ call.err = "") =>
       /\ ~BadlyConnected(call.words)
       /\ call.query.LogicOps = ConnectorsOf(call.words)
       /\ Len(call.query.Expressions)
            = Cardinality(ExpressionStarts(call.words))
  /\ (call.fn = "ParseWords" /\ BadlyConnected(call.words)) =>
       (call.err # "" /\ call.query.isNil)

\* two adjacent connectors between two expressions: rejected for the count
C4_Witness ==
  /\ call.fn = "ParseWords"
  /\ Len(call.words) = 4
  /\ ~IsConnector(call.words[1])
  /\ IsConnector(call.words[2])
  /\ IsConnector(call.words[3])
  /\ ~IsConnector(call.words[4])
  /\ call.err = "mismatched expressions and operators"

\* the result of one expression of the query on the row of the call
ExprResult(text, r) ==
  EvaluateRow(header, ParseQuery(header, text).query, data[r + 1])

\* (((e0 op0 e1) op1 e2) ... en) for the first n expressions of the words
RECURSIVE LeftFold(_, _, _)
LeftFold(ws, r, n) ==
  IF n = 1 THEN ExprResult(ws[1], r)
  ELSE IF ws[2 * n - 2] = AND
       THEN LeftFold(ws, r, n - 1) /\ ExprResult(ws[2 * n - 1], r)
       ELSE LeftFold(ws, r, n - 1) \/ ExprResult(ws[2 * n - 1], r)

AgeQuery ==
  << "a", "g", "e", " ", ">", "=", " ", "1", "8", " ", "A", "N", "D", " ",
     "a", "g", "e", " ", "<", " ", "6", "5" >>

\* C5: EvaluateRow returns the left fold of the per-expression results, with
\* no precedence of AND over OR; `age >= 18 AND age < 65` on the rows with
\* age 17, 18, 64, 65 selects exactly those with age 18 and 64.
C5_EvaluatesLeftToRight ==
  call.fn = "EvaluateRow" =>
    /\ call.result = LeftFold(call.words, call.row, (Len(call.words) + 1) \div 2)
    /\ (call.q = AgeQuery /\ header = People.header) =>
         (call.result <=> data[call.row + 1][2] \in {<<"1", "8">>, <<"6", "4">>})

\* `a OR b AND c` with a true and c false: FALSE, where a OR (b AND c) is TRUE
C5_Witness ==
  /\ call.fn = "EvaluateRow"
  /\ Len(call.words) = 5
  /\ call.words[2] = OR
  /\ call.words[4] = AND
  /\ ExprResult(call.words[1], call.row)
  /\ ~ExprResult(call.words[5], call.row)
  /\ ~call.result

----------------------------------------------------------------------------
(* Properties of the TableModel operations                                 *)

C12_SortNoneRestoresOriginalOrder ==
  [][ (last'.op = "Sort" /\ last'.dir = "SortNone" /\ last'.err = "")
        => /\ ~IsSorted(sortState')
           /\ StrictlyAscending(filteredRowIndices')
           /\ Len(filteredRowIndices') = Len(filteredRowIndices)
           /\ \A r \in 0..(Len(data) - 1) :
                Shows(filteredRowIndices', r) <=> Shows(filteredRowIndices, r)
    ]_vars

\* C12 witness: the sort was cleared on a view whose filter keeps some but
\* not all rows
C12_Witness ==
  /\ last.op = "Sort"
  /\ last.dir = "SortNone"
  /\ last.err = ""
  /\ ~IsSorted(sortState)
  /\ ~lastValidQuery.isNil
  /\ Len(filteredRowIndices) >= 2
  /\ Len(filteredRowIndices) < Len(data)

\* the cell of source row r in column col is null
NullKey(r, col) == isNull[r + 1][col + 1]

\* C13: after Sort(column, Ascending) and after Sort(column, Descending)
\* every visible row with a null cell in the sort column stands after every
\* visible row with a non-null cell in it.
C13_NullsLast ==
  (last.op = "Sort" /\ last.err = "" /\ last.dir # "SortNone")
    => \A i \in 1..Len(filteredRowIndices) :
         \A j \in 1..Len(filteredRowIndices) :
           (NullKey(filteredRowIndices[i], last.col)
              /\ ~NullKey(filteredRowIndices[j], last.col)) => j < i

\* C13 witness: a descending sort on a column with a null and two non-null
\* visible cells
C13_Witness ==
  /\ last.op = "Sort"
  /\ last.err = ""
  /\ last.dir = "SortDescending"
  /\ Len(filteredRowIndices) >= 3
  /\ NullKey(filteredRowIndices[Len(filteredRowIndices)], last.col)
  /\ ~NullKey(filteredRowIndices[1], last.col)

Reverse(seq) == [i \in 1..Len(seq) |-> seq[Len(seq) + 1 - i]]

Opposite(dir) ==
  IF dir = "SortAscending" THEN "SortDescending" ELSE "SortAscending"

\* source rows a and b have the same sort key in column col, a null cell
\* counting as a key
SameKey(col, a, b) ==
  IF NullKey(a, col) \/ NullKey(b, col) THEN NullKey(a, col) /\ NullKey(b, col)
  ELSE compareValues(columnTypes[col + 1], data[a + 1][col + 1],
                     data[b + 1][col + 1]) = 0

TiesFree(rows, col) ==
  \A i \in 1..Len(rows) : \A j \in 1..Len(rows) :
    i # j => ~SameKey(col, rows[i], rows[j])

NoNullKey(rows, col) == \A i \in 1..Len(rows) : ~NullKey(rows[i], col)

\* a successful sort of the column of the last sort, in the other direction
SortIsReversed ==
  /\ last.op = "Sort" /\ last.err = "" /\ last.dir # "SortNone"
  /\ last'.op = "Sort" /\ last'.err = ""
  /\ last'.col = last.col
  /\ last'.dir = Opposite(last.dir)

\* C14 as stated: on ties-free visible rows, a null cell counting as a key,
\* sorting the column in the opposite direction gives the exact reverse.
C14_DirectionReversal ==
  [][ (SortIsReversed /\ TiesFree(filteredRowIndices, last.col))
        => filteredRowIndices' = Reverse(filteredRowIndices) ]_vars

\* C14 amended: on ties-free visible rows none of which has a null cell in
\* the column, sorting the column in the opposite direction gives the exact
\* reverse.
C14_ReversalWithoutNulls ==
  [][ (SortIsReversed /\ TiesFree(filteredRowIndices, last.col)
         /\ NoNullKey(filteredRowIndices, last.col))
        => filteredRowIndices' = Reverse(filteredRowIndices) ]_vars

\* C14 witness: a descending sort left three or more ties-free rows without
\* nulls in the reverse of their ascending order
C14_Witness ==
  /\ last.op = "Sort"
  /\ last.err = ""
  /\ last.dir = "SortDescending"
  /\ Len(filteredRowIndices) >= 3
  /\ TiesFree(filteredRowIndices, last.col)
  /\ NoNullKey(filteredRowIndices, last.col)
  /\ filteredRowIndices
       = Reverse(sortRows(filteredRowIndices, Len(filteredRowIndices),
                          last.col, "SortAscending"))
  /\ ~StrictlyAscending(Reverse(filteredRowIndices))

----------------------------------------------------------------------------
(* Properties of the browser: repeated filters, cell reads, the source     *)

\* C15: submitting the same non-empty search text a second time in a row
\* leaves visibleRowIndices as the first submit left it, whether the text
\* parses or not.
C15_FilterIdempotent ==
  [][ (last.op = "SetFilter" /\ last'.op = "SetFilter"
         /\ last'.q = last.q /\ last.q # << >>)
        => filteredRowIndices' = filteredRowIndices ]_vars

\* C15 witness: the same text that parses was submitted twice in a row and
\* keeps some but not all rows
C15_Witness ==
  /\ last.op = "SetFilter"
  /\ last.again
  /\ last.q # << >>
  /\ last.err = ""
  /\ Len(filteredRowIndices) > 0
  /\ Len(filteredRowIndices) < Len(data)

C17_SourceNeverWritten ==
  [][ /\ header' = header
      /\ data' = data
      /\ columnTypes' = columnTypes
      /\ isNull' = isNull
      /\ arrow_rec' = arrow_rec ]_vars

\* C17 witness: a filter and the check boxes narrowed both projections and
\* the source is still one of the loaded datasets
C17_Witness ==
  /\ last.op \in {"SetFilter", "OnChanged", "DeselectAll"}
  /\ Len(filteredData) < Len(data)
  /\ Len(filteredHeader) < Len(header)
  /\ \E t \in Tables :
       /\ header = t.header
       /\ data = t.data
       /\ columnTypes = t.columnTypes
       /\ isNull = t.isNull

\* C20: an export of a view with no visible row fails with the error of
\* createFilteredArrowTable ("no data to export", the spec's EmptyData) and
\* hands no table to a serializer; no table handed over is empty.
C20_EmptyViewExportFails ==
  [][ /\ (last'.op = "Export" /\ Len(filteredRowIndices) = 0)
         => (last'.err = "no data to export" /\ exported' = exported)
      /\ exported'.made => exported'.numRows > 0 ]_vars

\* C20 witness: a filter that matches no row is active, the export failed
\* and nothing was handed over
C20_Witness ==
  /\ last.op = "Export"
  /\ last.err = "no data to export"
  /\ ~lastValidQuery.isNil
  /\ Len(filteredRowIndices) = 0
  /\ ~exported.made

\* ---- C18 ----
\* C18: a CompositeFilter with an empty child list passes the row and reports
\* no error, under AND and under OR alike.
C18_EmptyCompositePasses ==
  (call.fn = "CompositeEvaluate" /\ call.filters = << >>
     /\ call.logic \in {LogicAND, LogicOR})
    => (call.result /\ call.err = "")

C18_Witness ==
  /\ call.fn = "CompositeEvaluate"
  /\ call.filters = << >>
  /\ call.logic = LogicOR
  /\ call.result
  /\ call.err = ""

\* ---- C19 ----
\* C19: a CompositeFilter whose logic operator is neither AND nor OR fails
\* with an InvalidFilter error, whatever its child list is.
C19_UnknownLogicIsInvalidFilter ==
  (call.fn = "CompositeEvaluate" /\ call.logic \notin {LogicAND, LogicOR})
    => (call.err = "InvalidFilter" /\ ~call.result)

\* ---- C21 ----
RECURSIVE fullyCopied(_)
\* the type and every nested field and element type has a case in
\* appendValueToBuilder
fullyCopied(type) ==
  \/ type.id \in CopiedTypes
  \/ /\ type.id \in {"STRUCT", "LIST"}
     /\ \A i \in 1..Len(type.kids) : fullyCopied(type.kids[i])

\* the table has one column per visible column and one row per visible
\* row, and column j has the name and the type of its source column
ExportShape(table, rowIdx, cols) ==
  /\ table.made
  /\ Len(table.columns) = Len(cols)
  /\ table.numRows = Len(rowIdx)
  /\ \A j \in 1..Len(cols) :
       /\ Len(table.columns[j]) = Len(rowIdx)
       /\ table.names[j] = header[cols[j] + 1]
       /\ table.types[j] = arrow_rec[cols[j] + 1].type

\* the source cell behind the view cell (i, j), 1-based
SourceCell(rowIdx, cols, i, j) ==
  arrow_rec[cols[j] + 1].cells[rowIdx[i] + 1]

\* C21 as stated: an export of a non-empty view succeeds and its table is
\* the exact projection of the view: shape, names and types as the view's,
\* and every cell equal to its source cell (a null being a null).
C21_ExportIsExactProjection ==
  [][ (last'.op = "Export" /\ Len(filteredRowIndices) > 0) =>
        /\ last'.err = ""
        /\ ExportShape(exported', filteredRowIndices, visibleColumns)
        /\ \A j \in 1..Len(visibleColumns) :
             \A i \in 1..Len(filteredRowIndices) :
               exported'.columns[j][i]
                 = SourceCell(filteredRowIndices, visibleColumns, i, j) ]_vars

\* C21 amended: shape, names and types are the view's for every non-empty
\* view; a null source cell is null in the table; every cell of a column
\* whose type, with its nested field and element types, is one the copy
\* dispatcher has a case for equals its source cell, nested nulls included.
C21_ExportProjectsCopiedTypes ==
  [][ (last'.op = "Export" /\ Len(filteredRowIndices) > 0) =>
        /\ last'.err = ""
        /\ ExportShape(exported', filteredRowIndices, visibleColumns)
        /\ \A j \in 1..Len(visibleColumns) :
             \A i \in 1..Len(filteredRowIndices) :
               /\ SourceCell(filteredRowIndices, visibleColumns, i, j).null
                    => exported'.columns[j][i].null
               /\ fullyCopied(exported'.types[j])
                    => exported'.columns[j][i]
                         = SourceCell(filteredRowIndices, visibleColumns,
                                      i, j) ]_vars

\* C21 witness: the view is narrowed to rows 0 and 2 and to fewer columns;
\* the LIST<STRING> column is exported with a null element in one list and a
\* null list
C21_Witness ==
  /\ last.op = "Export"
  /\ exported.made
  /\ filteredRowIndices = << 0, 2 >>
  /\ exported.numRows = 2
  /\ Len(exported.columns) \in 1..(Len(header) - 1)
  /\ \E j \in 1..Len(exported.columns) :
       /\ exported.types[j] = arrowType("LIST", << arrowType("STRING", << >>) >>)
       /\ ~exported.columns[j][1].null
       /\ exported.columns[j][1].kids[2].null
       /\ exported.columns[j][2].null

\* ---- C22 ----
RECURSIVE failSoftCopy(_, _, _)
\* out is the fail-soft copy of src: a value of a type with a scalar case is
\* copied, a struct or a list is copied field by field or element by
\* element, a value of any other type is null
failSoftCopy(type, src, out) ==
  IF type.id \in CopiedTypes THEN out = src
  ELSE IF type.id \in {"STRUCT", "LIST"}
    THEN IF src.null THEN out.null
         ELSE /\ ~out.null
              /\ Len(out.kids) = Len(src.kids)
              /\ \A k \in 1..Len(src.kids) :
                   failSoftCopy(IF type.id = "LIST" THEN type.kids[1]
                                ELSE type.kids[k],
                                src.kids[k], out.kids[k])
  ELSE out.null

\* C22: the export of a non-empty view never fails, whatever the types of
\* the visible columns; a column keeps its declared type; every cell of a
\* column, struct field or list element of a type the copy dispatcher has no
\* case for is null, and everything else is copied as it is.
C22_FailSoftExport ==
  [][ (last'.op = "Export" /\ Len(filteredRowIndices) > 0) =>
        /\ last'.err = ""
        /\ exported'.made
        /\ \A j \in 1..Len(visibleColumns) :
             /\ exported'.types[j] = arrow_rec[visibleColumns[j] + 1].type
             /\ \A i \in 1..Len(filteredRowIndices) :
                  failSoftCopy(exported'.types[j],
                               SourceCell(filteredRowIndices, visibleColumns,
                                          i, j),
                               exported'.columns[j][i]) ]_vars

\* C22 witness: the DURATION column and the STRUCT column are exported next
\* to the STRING column; the non-null DURATION cell of row 0 is null, the
\* struct of row 0 keeps its city and has a null zone
C22_Witness ==
  /\ last.op = "Export"
  /\ exported.made
  /\ visibleColumns = << 0, 1, 2 >>
  /\ filteredRowIndices[1] = 0
  /\ ~arrow_rec[2].cells[1].null
  /\ exported.types[2].id = "DURATION"
  /\ exported.columns[2][1].null
  /\ exported.columns[1][1] = arrow_rec[1].cells[1]
  /\ ~exported.columns[3][1].null
  /\ exported.columns[3][1].kids[1] = arrow_rec[3].cells[1].kids[1]
  /\ ~arrow_rec[3].cells[1].kids[2].null
  /\ exported.columns[3][1].kids[2].null

\* ---- C23 ----
\* the ascending index lists below n: the projections a view can have
AscendingLists(n) ==
  { SelectSeq(Iota(n), LAMBDA i : i \in S) : S \in SUBSET (0..(n - 1)) }

\* the table is the projection of one view state
IsOneViewState(table) ==
  \E rowIdx \in AscendingLists(Len(data)), cols \in AscendingLists(Len(header)) :
    /\ table.numRows = Len(rowIdx)
    /\ table.names = keptHeader(header, cols)
    /\ table.types = schemaTypes(arrow_rec, cols)
    /\ table.columns = [j \in 1..Len(cols) |->
                          buildColumn(arrow_rec[cols[j] + 1], rowIdx)]

HasFoldedSubstring(cell, term) ==
  \E i \in 0..(Len(cell) - Len(term)) : EqualFold(Sub(cell, i, i + Len(term)), term)

\* the query is one bare term
IsBareTerm(query) ==
  /\ ~query.isNil
  /\ Len(query.Expressions) = 1
  /\ query.Expressions[1].ColumnName = << >>

\* the source rows with a cell that holds the term, in source order
RowsHolding(term) ==
  SelectSeq(Iota(Len(data)),
            LAMBDA r : \E c \in 1..Len(header) :
                         HasFoldedSubstring(data[r + 1][c], term))

BobRow ==
  << << "B", "o", "b", " ", "S", "m", "i", "t", "h" >>,
     << "D", "e", "s", "i", "g", "n", "e", "r" >> >>

BobHeader == << << "n", "a", "m", "e" >>, << "r", "o", "l", "e" >> >>

\* C24: under a bare term the visible rows are exactly the source rows with
\* a cell, in any source column, visible or not, that holds the term when
\* case is ignored, whatever the column selection is; `bob` and `BOB` both
\* match the row ["Bob Smith", "Designer"].
C24_BareTermSearchesWholeRow ==
  /\ IsBareTerm(lastValidQuery) =>
       filteredRowIndices = RowsHolding(lastValidQuery.Expressions[1].Value)
  /\ EvaluateRow(BobHeader, ParseQuery(BobHeader, << "b", "o", "b" >>).query,
                 BobRow)
  /\ EvaluateRow(BobHeader, ParseQuery(BobHeader, << "B", "O", "B" >>).query,
                 BobRow)

\* C24 witness: the term OPS selects row 1 through the column role, which
\* holds it in lower case and is not visible
C24_Witness ==
  /\ IsBareTerm(lastValidQuery)
  /\ lastValidQuery.Expressions[1].Value = << "O", "P", "S" >>
  /\ Len(visibleColumns) > 0
  /\ visibleColumns[1] # 0
  /\ filteredRowIndices = << 1 >>

\* ---- C25 ----
\* the outcome of a child ends the loop of the operator
Stops(logic, o) ==
  \/ o = "error"
  \/ logic = LogicAND /\ o = "fail"
  \/ logic = LogicOR /\ o = "pass"

\* the call stopped at child k, having evaluated children 1..k only
StoppedAt(c, o, k) ==
  /\ c.evaluated = k
  /\ IF o = "error" THEN c.err # "" /\ ~c.result
     ELSE c.err = "" /\ c.result = (c.logic = LogicOR)

\* the call evaluated every child and none decided
RanThrough(c) ==
  /\ c.evaluated = Len(c.filters)
  /\ c.err = ""
  /\ c.result = (c.logic = LogicAND)

\* C25: AND and OR over a non-empty child list evaluate the children in
\* list order and stop at the first child that fails (AND), passes (OR) or
\* raises an error; the result is false, true, or the error with pass =
\* false, and no later child is evaluated; if no child stops the loop AND
\* is true and OR is false. A child that is a CompositeFilter behaves the
\* same way: OR over [pass, error] passes, AND over [fail, error] fails.
C25_ShortCircuitOrder ==
  /\ (call.fn = "CompositeEvaluate" /\ call.logic \in {LogicAND, LogicOR}
        /\ Len(call.filters) > 0) =>
       LET os == [i \in 1..Len(call.filters) |-> childOutcome(call.filters[i])]
           stops == { i \in 1..Len(os) : Stops(call.logic, os[i]) }
       IN  IF stops = {} THEN RanThrough(call)
           ELSE \E k \in stops :
                  /\ \A i \in stops : k <= i
                  /\ StoppedAt(call, os[k], k)
  /\ childOutcome(compositeFilter(<< "pass", "error" >>, LogicOR)) = "pass"
  /\ childOutcome(compositeFilter(<< "fail", "error" >>, LogicAND)) = "fail"

\* C25 witness: OR over a nested OR that passes at its first child and a
\* leaf that would raise an error: true, no error, one child evaluated
C25_Witness ==
  /\ call.fn = "CompositeEvaluate"
  /\ call.logic = LogicOR
  /\ call.filters = << compositeFilter(<< "pass", "error" >>, LogicOR),
                       leafFilter("error") >>
  /\ call.result
  /\ call.err = ""
  /\ call.evaluated = 1

\* ---- C26 ----
\* the text parses as a number once the spaces around it are dropped
IsNumberText(t) == ParseFloat(TrimSpace(t)).ok

\* the digits of an integer literal as written, without sign and leading
\* zeros
WrittenDigits(t) ==
  stripZeros(IF t[1] \in {"+", "-"} THEN Sub(t, 1, Len(t)) ELSE t)

\* the number a text stands for, exactly
ExactNumber(t) ==
  IF ParseFloat(t).big = << >> THEN ParseFloat(t)
  ELSE [ParseFloat(t) EXCEPT !.big = WrittenDigits(t)]

OperatorNamed(symbol) ==
  CASE symbol = << ">" >> -> "OpGreater"
    [] symbol = << "<" >> -> "OpLess"
    [] symbol = << ">", "=" >> -> "OpGreaterEqual"
    [] symbol = << "<", "=" >> -> "OpLessEqual"

\* what the claim says `cell OP value` is
OrderingExpected(cell, symbol, value) ==
  IF IsNumberText(cell) /\ IsNumberText(value)
    THEN compareOp(compareFloats(ExactNumber(TrimSpace(cell)),
                                 ExactNumber(TrimSpace(value))),
                   OperatorNamed(symbol))
    ELSE compareOp(Compare(ToLower(cell), ToLower(value)),
                   OperatorNamed(symbol))

\* C26: an ordering comparison on an explicit column never fails; when the
\* cell and the value both parse as numbers its result is the comparison
\* of the two numbers, otherwise the bytewise comparison of the two texts
\* in lower case.
C26_OrderingComparison ==
  call.fn = "Compare" =>
    /\ call.err = ""
    /\ call.result = OrderingExpected(call.cell, call.op, call.value)

\* ---- C27 ----
\* the value without the matching quotes around it
Unquoted(v) ==
  IF Len(v) >= 2 /\ v[1] \in {"'", "\""} /\ v[Len(v)] = v[1]
  THEN Sub(v, 1, Len(v) - 1) ELSE v

\* the text of the call is `column OP value` and nothing else, OP being
\* operator k, with or without spaces around it
IsComparisonText(c, k) ==
  \E pad \in {<< >>, Space} :
    c.q = c.column \o pad \o operators[k].symbol \o pad \o c.value

\* C27: the text `c OP v` of a known column, an operator and a value, quoted
\* or not, parses to exactly one expression with column c, operator OP and
\* the value without its quotes; nothing inside the quotes is split off.
C27_ExpressionSplitting ==
  \A k \in 1..Len(operators) :
    (call.fn = "ParseComparison" /\ KnownColumn(call.column)
       /\ call.value # << >> /\ IsComparisonText(call, k)) =>
      /\ call.err = ""
      /\ Len(call.query.Expressions) = 1
      /\ call.query.LogicOps = << >>
      /\ call.query.Expressions[1].ColumnName = call.column
      /\ call.query.Expressions[1].Operator = operators[k].op
      /\ call.query.Expressions[1].Value = Unquoted(call.value)

\* ---- C28 ----
\* the handlers that end in applyFilters
FilterOps == {"SetFilter", "ClearSearch", "OnChanged", "SelectAll",
              "DeselectAll"}

\* every source row is shown, in ascending source order, projected on the
\* visible columns
AllRowsShown ==
  /\ filteredRowIndices = Iota(Len(data))
  /\ filteredData = projectRows(data, Iota(Len(data)), visibleColumns)

\* C28: applying an empty or white-space-only search text is not an error
\* and leaves no query behind, the remembered last valid query included,
\* with every source row shown in ascending source order; while no valid
\* query is remembered, a search text that fails to parse also shows every
\* row.
C28_BlankQueryClearsFilter ==
  /\ (last.op \in FilterOps /\ last.q = << >>) =>
       (last.err = "" /\ errorLabel = "" /\ lastValidQuery.isNil
          /\ AllRowsShown)
  /\ (last.op \in FilterOps /\ last.err # "" /\ lastValidQuery.isNil) =>
       AllRowsShown

\* a white-space-only text has been submitted and cleared the filter
C28_Witness ==
  /\ last.op = "SetFilter" /\ last.q = << >> /\ searchText # << >>
  /\ lastValidQuery.isNil /\ errorLabel = ""
  /\ filteredRowIndices = Iota(Len(data)) /\ Len(data) > 0

\* ---- C29 ----
\* the call has run to its end: the dialog is hidden, the progress goroutine
\* and GetData have returned
LoadFinished ==
  /\ getData.progress = "returned" /\ ~getData.dialog
  /\ getData.pc = "returned"

\* C29: every GetData call, whether one file, no file or several files have
\* the requested id and whether or not the query options or the conversion
\* fail, leads to the progress goroutine receiving the signal and hiding the
\* dialog, and to GetData returning instead of blocking on a send.
C29_LoadSignalsCompletion ==
  (getData.pc # "idle") ~> LoadFinished

\* ---- C30 ----
\* no write to the node map replaces the node of another tuple
NoNodeOverwritten(writes) ==
  \A i \in 1..Len(writes) : \A j \in 1..Len(writes) :
    writes[i].id = writes[j].id => writes[i].node = writes[j].node

\* C30: two different tuples naming tree nodes get different ids, the id of
\* a tuple parses back to its node type and its names, also when a name
\* holds a colon, and LoadShares never writes the node of one tuple over
\* the node of another.
C30_NodeIDsUniqueAndDecodable ==
  /\ call.fn = "GenerateNodeID" =>
       /\ call.nodes[1] # call.nodes[2] => call.ids[1] # call.ids[2]
       /\ call.parsed = call.nodes[1]
  /\ call.fn = "LoadShares" => NoNodeOverwritten(call.writes)

====
